---- MODULE Spec2Model ----
(***************************************************************************)
(* A model of the egon dataflow framework: connectors (src/egon/           *)
(* connectors.py), the worker pool (src/egon/multiprocessing.py), nodes    *)
(* (src/egon/nodes.py) and the pipeline (src/egon/pipelines.py, the module *)
(* that src/egon/__init__.py imports).                                     *)
(*                                                                         *)
(* Revision skew inside the sources, and how the model reads it:           *)
(*  - nodes.py:73,87 construct connectors with parent_node=self, and the   *)
(*    tests (test_BaseConnector.py:42-47, test_Node.py:129-134) require    *)
(*    connector.parent_node to be that node; the constructor in            *)
(*    connectors.py:23 predates the keyword.  create_input/create_output   *)
(*    are modelled as nodes.py calls them: the connector's _node is set.   *)
(*  - connectors.py:195 calls parent_node.expecting_data(); the only       *)
(*    liveness predicate of Node is is_expecting_data (nodes.py:192),      *)
(*    which connectors.py:168 calls by that name.  Both calls are          *)
(*    modelled as IsExpectingData.                                         *)
(* Everything else is modelled as written, in particular                   *)
(* `raise StopIteration from excep` inside the generator iter_get          *)
(* (connectors.py:199-200), which Python turns into RuntimeError, and      *)
(* _wrap_target (multiprocessing.py:32-36), which sets the worker's flag   *)
(* only when the target returns normally.                                  *)
(***************************************************************************)
EXTENDS Integers, Sequences, FiniteSets, TLC

VARIABLES
    nodes,      \* Pipeline._nodes: sequence of registered nodes
    kind,       \* node -> which action() the node's class supplies
    inputs,     \* Node._inputs: node -> sequence of input connectors
    outputs,    \* Node._outputs: node -> sequence of output connectors
    node,       \* BaseConnector._node: connector -> parent node or None
    partners,   \* BaseConnector._connected_partners: connector -> set
    porder,     \* iteration order of an output's partner set (fixed per set)
    maxsize,    \* InputConnector._maxsize
    queue,      \* InputConnector._queue: input -> sequence of items
    locked,     \* MultiprocessingEngine._locked: node -> BOOLEAN
    states,     \* MultiprocessingEngine._states: node -> worker -> BOOLEAN
    procs,      \* MultiprocessingEngine._processes: node -> worker -> frame
    pool,       \* the external queue a source node's workers drain
    collected,  \* the external queue a sink node's workers fill
    mpc,        \* position of the coordinating (main) thread
    mi,         \* index of the node the main thread's loop is at
    enq,        \* history: items ever enqueued into each input, in order
    deq,        \* history: items ever dequeued from each input, in order
    logging,    \* history switch: whether frames record the items they put
    caller,     \* frame of a connector call made by the main thread
    call,       \* the pool or node method the test thread called last
    events      \* history: the hooks run so far, in order (when logging)

vars == <<nodes, kind, inputs, outputs, node, partners, porder, maxsize, queue,
          locked, states, procs, pool, collected, mpc, mi, enq, deq, logging,
          caller, call, events>>

\* The wiring of the graph, which no step changes after construction.
static == <<nodes, kind, inputs, outputs, node, partners, porder, maxsize, logging>>

\* What no step of a pipeline run or of a connector call changes: the wiring
\* and the record of pool and node methods called directly.
graph == <<static, call, events>>

\* ------------------------------------------------------------------ bounds
\* Number of items each source node's external queue holds.
NumItems == 2

\* ------------------------------------------------------------- constants
\* timeout = float('inf') when timeout is None (connectors.py:158-159).
INF == 1000
\* Default refresh_interval of get/iter_get (connectors.py:140,175).
DefaultRefresh == 2
\* num_processes of Extract, Transform and Load in the ETL functional test.
ExtractProcs == 3
TransformProcs == 2
LoadProcs == 1

None == "None"

Min(a, b) == IF a <= b THEN a ELSE b

Range(s) == {s[k] : k \in DOMAIN s}

RECURSIVE SetToSeq(_)
SetToSeq(S) == IF S = {} THEN <<>>
               ELSE LET x == CHOOSE y \in S : TRUE
                    IN <<x>> \o SetToSeq(S \ {x})

Perms(S) == {s \in [1..Cardinality(S) -> S] : Range(s) = S}

RECURSIVE Flatten(_)
Flatten(ss) == IF ss = <<>> THEN <<>> ELSE Head(ss) \o Flatten(Tail(ss))

Count(s, x) == Cardinality({k \in DOMAIN s : s[k] = x})

\* No pool or node method has been called yet.
NoCall == [op |-> "none", node |-> None, conn |-> None, arg |-> 0, i |-> 0, result |-> "ok"]

\* A worker frame before Process.start().
NewProc == [pc |-> "new", item |-> 0, out |-> None, todo |-> <<>>,
            timeout |-> 0, refresh |-> 0, exc |-> "", log |-> <<>>]

\* ------------------------------------------------------------ connectors
AllNodes == Range(nodes)

InputsOf(n) == Range(inputs[n])

OutputsOf(n) == Range(outputs[n])

AllInputs == UNION {InputsOf(n) : n \in AllNodes}

AllOutputs == UNION {OutputsOf(n) : n \in AllNodes}

\* BaseConnector.is_connected
is_connected(c) == partners[c] # {}

\* InputConnector.size: Queue.qsize()
size(i) == Len(queue[i])

\* InputConnector.empty: Queue.empty()
empty(i) == Len(queue[i]) = 0

\* InputConnector.full: Queue.full(), which is 0 < maxsize <= qsize
full(i) == 0 < maxsize[i] /\ maxsize[i] <= Len(queue[i])

\* ------------------------------------------------------------ worker pool
Workers(n) == DOMAIN procs[n]

\* MultiprocessingEngine.get_num_processes
get_num_processes(n) == Len(procs[n])

\* Fault injection for is_finished: any() in place of all().
EngineIsFinishedAny(n) == \E w \in DOMAIN states[n] : states[n][w]

\* MultiprocessingEngine.is_finished: all(self._states.values())
EngineIsFinished(n) == \A w \in DOMAIN states[n] : states[n][w]

\* Node.is_finished
NodeIsFinished(n) == EngineIsFinished(n)

\* Fault injection for Pipeline.is_finished: only the first node is asked.
PipelineIsFinishedFirst == \A k \in 1..Len(nodes) : k = 1 => NodeIsFinished(nodes[k])

\* Pipeline.is_finished
PipelineIsFinished == \A k \in 1..Len(nodes) : NodeIsFinished(nodes[k])

\* A worker process has ended (returned, died of an exception, or was killed).
Ended(p) == p.pc \in {"exited", "failed", "killed"}

\* ------------------------------------------------------------------ nodes
\* Node.upstream_nodes: tuple(p.parent_node for c in inputs for p in c.partners)
upstream_nodes(n) ==
    Flatten([k \in 1..Len(inputs[n]) |->
                LET ps == SetToSeq(partners[inputs[n][k]])
                IN [j \in 1..Len(ps) |-> node[ps[j]]]])

\* Node.downstream_nodes: tuple(p.parent_node for c in outputs for p in c.partners)
downstream_nodes(n) ==
    Flatten([k \in 1..Len(outputs[n]) |->
                LET ps == porder[outputs[n][k]]
                IN [j \in 1..Len(ps) |-> node[ps[j]]]])

\* First loop of Node.is_expecting_data: a running node immediately upstream.
UpstreamRunning(n) ==
    \E k \in 1..Len(inputs[n]) :
        \E o \in partners[inputs[n][k]] : ~NodeIsFinished(node[o])

\* Second loop of Node.is_expecting_data: data pending in an input queue.
DataPending(n) == \E k \in 1..Len(inputs[n]) : ~empty(inputs[n][k])

\* Fault injection for is_expecting_data: the pending-data loop is left out.
IsExpectingDataUpstreamOnly(n) == UpstreamRunning(n)

\* Node.is_expecting_data.  The upstream flags are read before the queues;
\* the flags only turn true while a pool runs, and a finished upstream puts
\* nothing, so the two reads are modelled as one step.
IsExpectingData(n) ==
    IF UpstreamRunning(n) THEN TRUE
    ELSE IF DataPending(n) THEN TRUE
    ELSE FALSE

\* --------------------------------------------------------------- pipeline
RECURSIVE is_cyclic_helper(_, _, _), CyclicLoop(_, _, _, _)
\* Pipeline._is_cyclic_helper: the result and the two dictionaries it mutates.
is_cyclic_helper(n, visited, stack) ==
    LET res == CyclicLoop(downstream_nodes(n), 1,
                          [visited EXCEPT ![n] = TRUE],
                          [stack EXCEPT ![n] = TRUE])
    IN IF res.r THEN res
       ELSE [r |-> FALSE, visited |-> res.visited,
             stack |-> [res.stack EXCEPT ![n] = FALSE]]

\* Fault injection for _is_cyclic_helper: a visited node is skipped, whether
\* it is on the recursion stack or not.
CyclicLoopNoBackEdge(ds, k, visited, stack) ==
    IF k > Len(ds) THEN [r |-> FALSE, visited |-> visited, stack |-> stack]
    ELSE IF ~visited[ds[k]]
         THEN LET sub == is_cyclic_helper(ds[k], visited, stack)
              IN IF sub.r THEN sub
                 ELSE CyclicLoop(ds, k + 1, sub.visited, sub.stack)
         ELSE CyclicLoop(ds, k + 1, visited, stack)

\* The loop over node.downstream_nodes() in _is_cyclic_helper.
CyclicLoop(ds, k, visited, stack) ==
    IF k > Len(ds) THEN [r |-> FALSE, visited |-> visited, stack |-> stack]
    ELSE IF ~visited[ds[k]]
         THEN LET sub == is_cyclic_helper(ds[k], visited, stack)
              IN IF sub.r THEN sub
                 ELSE CyclicLoop(ds, k + 1, sub.visited, sub.stack)
         ELSE IF stack[ds[k]]
              THEN [r |-> TRUE, visited |-> visited, stack |-> stack]
              ELSE CyclicLoop(ds, k + 1, visited, stack)

RECURSIVE IsCyclicLoop(_, _, _)
\* The loop over self._nodes in Pipeline._is_cyclic.
IsCyclicLoop(k, visited, stack) ==
    IF k > Len(nodes) THEN FALSE
    ELSE IF visited[nodes[k]] THEN IsCyclicLoop(k + 1, visited, stack)
         ELSE LET res == is_cyclic_helper(nodes[k], visited, stack)
              IN IF res.r THEN TRUE
                 ELSE IsCyclicLoop(k + 1, res.visited, res.stack)

\* Pipeline._is_cyclic
is_cyclic ==
    IsCyclicLoop(1, [n \in AllNodes |-> FALSE], [n \in AllNodes |-> FALSE])

RECURSIVE isolated_nodes_helper(_, _), IsolatedLoop(_, _, _)
\* Fault injection for _isolated_nodes_helper: the search follows the
\* downstream neighbours only.
IsolatedDownstreamOnly(n, stack) ==
    IF stack[n] THEN stack
    ELSE IsolatedLoop(downstream_nodes(n), 1, [stack EXCEPT ![n] = TRUE])

\* Pipeline._isolated_nodes_helper: the dictionary it mutates.
isolated_nodes_helper(n, stack) ==
    IF stack[n] THEN stack
    ELSE IsolatedLoop(downstream_nodes(n) \o upstream_nodes(n), 1,
                      [stack EXCEPT ![n] = TRUE])

\* The two loops over the neighbours in _isolated_nodes_helper.
IsolatedLoop(ns, k, stack) ==
    IF k > Len(ns) THEN stack
    ELSE IsolatedLoop(ns, k + 1, isolated_nodes_helper(ns[k], stack))

\* Pipeline._isolated_nodes
isolated_nodes ==
    LET stack == isolated_nodes_helper(nodes[1], [n \in AllNodes |-> FALSE])
    IN ~(\A n \in AllNodes : stack[n])

\* Pipeline.validate: the error it raises, or "ok".  With no node at all
\* _is_cyclic loops over nothing and _isolated_nodes fails on self._nodes[0].
validate ==
    IF is_cyclic THEN "PipelineValidationError: cyclic"
    ELSE IF nodes = <<>> THEN "IndexError"
    ELSE IF isolated_nodes THEN "PipelineValidationError: disconnected"
    ELSE "ok"

\* ------------------------------------------------------ calls in a frame
\* A frame is the position of one thread of control: pc, the item it holds,
\* the output it puts on and the partners the put still has to serve, the
\* time budget and refresh interval of a get, the exception that ended it,
\* and (history) the items it has put, in order.

\* An uncaught exception e ends the frame.
Raise(p, e) ==
    [p EXCEPT !.pc = "failed", !.exc = e, !.item = 0, !.out = None, !.todo = <<>>]

\* Fault injection for put: only the first partner is served.
PutEnterFirstOnly(p, o, x) ==
    IF ~is_connected(o) THEN Raise(p, "MissingConnectionError")
    ELSE [p EXCEPT !.pc = "put", !.item = x, !.out = o,
                   !.todo = <<Head(porder[o])>>,
                   !.log = IF logging THEN Append(@, <<x, o>>) ELSE @]

\* OutputConnector.put, up to the loop over the partners.
PutEnter(p, o, x) ==
    IF ~is_connected(o) THEN Raise(p, "MissingConnectionError")
    ELSE [p EXCEPT !.pc = "put", !.item = x, !.out = o, !.todo = porder[o],
                   !.log = IF logging THEN Append(@, <<x, o>>) ELSE @]

\* OutputConnector.put, one round of the loop done: the frame after it, which
\* is at ret when the loop is over and put returns.
PutNext(p, ret) ==
    IF Tail(p.todo) = <<>>
    THEN [p EXCEPT !.pc = ret, !.item = 0, !.out = None, !.todo = <<>>]
    ELSE [p EXCEPT !.todo = Tail(@)]

\* Fault injection for _put: the item jumps the queue.
EnqueueFront(q, x) == <<x>> \o q

\* InputConnector._put: self._queue.put(item)
Enqueue(q, x) == Append(q, x)

\* self._queue.get(): the oldest item, and the queue without it.
Oldest(q) == Head(q)

Dequeue(q) == Tail(q)

\* Fault injection for _put: the queue never blocks the producer.
CanPutAlways(i) == TRUE

\* InputConnector._put: Queue.put blocks while the queue is full.
CanPut(i) == ~full(i)

\* get as a do-while loop: a timeout of zero still waits once.
GetEnterWaitsOnce(p, timeout, refresh_interval) ==
    IF refresh_interval <= 0 THEN Raise(p, "ValueError")
    ELSE IF timeout >= 0
         THEN [p EXCEPT !.pc = "wait", !.timeout = timeout,
                        !.refresh = refresh_interval]
         ELSE Raise(p, "TimeoutError")

\* InputConnector.get, up to the first wait on the queue.  A timeout of
\* None arrives here as INF (connectors.py:158-159).
GetEnter(p, timeout, refresh_interval) ==
    IF refresh_interval <= 0 THEN Raise(p, "ValueError")
    ELSE IF timeout > 0
         THEN [p EXCEPT !.pc = "wait", !.timeout = timeout,
                        !.refresh = refresh_interval]
         ELSE Raise(p, "TimeoutError")

\* this_timeout = min(timeout, refresh_interval)
ThisTimeout(p) == Min(p.timeout, p.refresh)

\* The wait on the queue expired: timeout -= this_timeout.
GetOnEmpty(p) ==
    [p EXCEPT !.pc = "check",
              !.timeout = IF @ = INF THEN INF ELSE @ - ThisTimeout(p)]

\* Fault injection for get: the except clause re-raises without asking the
\* parent node.
GetCheckOutcomeNoParent(p, i) == "Empty"

\* Fault injection for get: a connector of no node is taken to expect data.
GetCheckOutcomeAnyParent(p, i) ==
    IF node[i] = None \/ IsExpectingData(node[i])
    THEN IF p.timeout > 0 THEN "wait" ELSE "TimeoutError"
    ELSE "Empty"

\* After an expired wait: wait again, or the exception get raises.
GetCheckOutcome(p, i) ==
    IF node[i] # None /\ IsExpectingData(node[i])
    THEN IF p.timeout > 0 THEN "wait" ELSE "TimeoutError"
    ELSE "Empty"

\* What the generator iter_get does with an exception of the interior get:
\* Empty is re-raised as StopIteration inside the generator body, which the
\* interpreter replaces by RuntimeError; anything else passes through.
IterGetSurfaces(e) == IF e = "Empty" THEN "RuntimeError" ELSE e

\* The output an item is put on by a node's action.
Route(n, x) ==
    IF kind[n] = "sorter"
    THEN IF x % 2 = 1 THEN outputs[n][2] ELSE outputs[n][1]
    ELSE outputs[n][1]

\* ------------------------------------------------------------ the workers
\* Fault injection for _wrap_target: the first worker to return flags the
\* whole pool.
TargetReturnedAll(n, w) ==
    /\ procs' = [procs EXCEPT ![n][w] = [@ EXCEPT !.pc = "exited"]]
    /\ states' = [states EXCEPT ![n] = [v \in DOMAIN @ |-> TRUE]]

\* MultiprocessingEngine._wrap_target after self._target() returned: the flag
\* of the worker is set and the process ends.  (setup and teardown are the
\* no-ops of Node, nodes.py:139-158.)
TargetReturned(n, w) ==
    /\ procs' = [procs EXCEPT ![n][w] = [@ EXCEPT !.pc = "exited"]]
    /\ states' = [states EXCEPT ![n][w] = TRUE]

\* _wrap_target when self._target() raised: the exception leaves the process
\* and the line that sets the flag is never reached.
TargetRaised(n, w, p) ==
    /\ procs' = [procs EXCEPT ![n][w] = p]
    /\ UNCHANGED states

\* The frame p is where worker w of node n is after a call made by action().
Continue(n, w, p) ==
    IF p.pc = "failed" THEN TargetRaised(n, w, p)
    ELSE /\ procs' = [procs EXCEPT ![n][w] = p]
         /\ UNCHANGED states

\* Extract.action / the generators' action: self.output.put(QUEUE.get(timeout=2))
SourceTake(n, w) ==
    /\ kind[n] = "source"
    /\ procs[n][w].pc = "action"
    /\ pool[n] # <<>>
    /\ pool' = [pool EXCEPT ![n] = Tail(@)]
    /\ Continue(n, w, PutEnter(procs[n][w], outputs[n][1], Head(pool[n])))
    /\ UNCHANGED <<graph, caller, queue, locked, collected, mpc, mi, enq, deq>>

\* Extract.action: except Empty: break, and the action returns.
SourceDone(n, w) ==
    /\ kind[n] = "source"
    /\ procs[n][w].pc = "action"
    /\ pool[n] = <<>>
    /\ TargetReturned(n, w)
    /\ UNCHANGED <<graph, caller, queue, locked, pool, collected, mpc, mi, enq, deq>>

\* InputConnector.iter_get: the parent check and the test of the while loop,
\* reached when the action's for loop asks for the next item.
IterGetNext(n, w) ==
    LET i == inputs[n][1]
        p == procs[n][w]
    IN /\ kind[n] \in {"relay", "sorter", "sink"}
       /\ p.pc = "action"
       /\ IF node[i] = None
          THEN TargetRaised(n, w, Raise(p, "MissingConnectionError"))
          ELSE IF IsExpectingData(node[i])
               THEN LET g == GetEnter(p, INF, DefaultRefresh)
                    IN Continue(n, w, IF g.pc = "failed"
                                      THEN Raise(p, IterGetSurfaces(g.exc))
                                      ELSE g)
               ELSE TargetReturned(n, w)
       /\ UNCHANGED <<graph, caller, queue, locked, pool, collected, mpc, mi, enq, deq>>

\* InputConnector.get: self._queue.get(timeout=this_timeout) returns an item,
\* iter_get yields it, and the action's loop body starts: a relay or sorter
\* calls put, a sink hands the item to its external queue.
GetItem(n, w) ==
    LET i == inputs[n][1]
        p == procs[n][w]
        x == Oldest(queue[i])
    IN /\ p.pc = "wait"
       /\ ~empty(i)
       /\ queue' = [queue EXCEPT ![i] = Dequeue(@)]
       /\ deq' = [deq EXCEPT ![i] = Append(@, x)]
       /\ IF kind[n] = "sink"
          THEN /\ collected' = [collected EXCEPT ![n] = Append(@, x)]
               /\ Continue(n, w, [p EXCEPT !.pc = "action"])
          ELSE /\ Continue(n, w, PutEnter(p, Route(n, x), x))
               /\ UNCHANGED collected
       /\ UNCHANGED <<graph, caller, locked, pool, mpc, mi, enq>>

\* InputConnector.get: the wait on the empty queue expires (queue.Empty).
GetEmpty(n, w) ==
    LET i == inputs[n][1]
        p == procs[n][w]
    IN /\ p.pc = "wait"
       /\ empty(i)
       /\ Continue(n, w, GetOnEmpty(p))
       /\ UNCHANGED <<graph, caller, queue, locked, pool, collected, mpc, mi, enq, deq>>

\* InputConnector.get: the except clause, inside iter_get.
GetCheck(n, w) ==
    LET i == inputs[n][1]
        p == procs[n][w]
        r == GetCheckOutcome(p, i)
    IN /\ p.pc = "check"
       /\ Continue(n, w, IF r = "wait" THEN [p EXCEPT !.pc = "wait"]
                         ELSE Raise(p, IterGetSurfaces(r)))
       /\ UNCHANGED <<graph, caller, queue, locked, pool, collected, mpc, mi, enq, deq>>

\* OutputConnector.put: one round of `for partner in partners: partner._put(item)`.
PutPartner(n, w) ==
    LET p == procs[n][w]
        i == Head(p.todo)
    IN /\ p.pc = "put"
       /\ p.todo # <<>>
       /\ CanPut(i)
       /\ queue' = [queue EXCEPT ![i] = Enqueue(@, p.item)]
       /\ enq' = [enq EXCEPT ![i] = Append(@, <<p.item, p.out>>)]
       /\ Continue(n, w, PutNext(p, "action"))
       /\ UNCHANGED <<graph, caller, locked, pool, collected, mpc, mi, deq>>

WorkerStep(n, w) ==
    \/ SourceTake(n, w)
    \/ SourceDone(n, w)
    \/ IterGetNext(n, w)
    \/ GetItem(n, w)
    \/ GetEmpty(n, w)
    \/ GetCheck(n, w)
    \/ PutPartner(n, w)

\* ------------------------------------------------------- the main thread
\* Where the target of a started process begins: Node._execute_helper calls
\* setup() first; for the nodes whose setup and teardown are the no-ops of
\* Node the frame starts at action().
Entry(n) == IF kind[n] = "task" THEN "setup" ELSE "action"

\* MultiprocessingEngine.run_async: the frames of the started processes.
Started(n) == [w \in Workers(n) |-> [procs[n][w] EXCEPT !.pc = Entry(n)]]

\* Pipeline.run_async: self.validate() before any pool is started.
RunAsyncValidate ==
    /\ mpc = "new"
    /\ IF validate = "ok"
       THEN mpc' = "starting" /\ mi' = 1
       ELSE mpc' = validate /\ mi' = mi
    /\ UNCHANGED <<graph, caller, queue, locked, states, procs, pool, collected, enq, deq>>

\* Pipeline.run_async: node._engine.run_async() for the next node.
RunAsyncNode ==
    LET n == nodes[mi]
    IN /\ mpc = "starting"
       /\ IF locked[n]
          THEN /\ mpc' = "RuntimeError"
               /\ UNCHANGED <<locked, procs, mi>>
          ELSE /\ locked' = [locked EXCEPT ![n] = TRUE]
               /\ procs' = [procs EXCEPT ![n] = Started(n)]
               /\ IF mi = Len(nodes)
                  THEN mpc' = "async" /\ mi' = 0
                  ELSE mpc' = mpc /\ mi' = mi + 1
       /\ UNCHANGED <<graph, caller, queue, states, pool, collected, enq, deq>>

\* Pipeline.join is called: by run() right after run_async(), or by the user
\* after run_async() returned.
PipelineJoin ==
    /\ mpc = "async"
    /\ mpc' = "joining"
    /\ mi' = 1
    /\ UNCHANGED <<graph, caller, queue, locked, states, procs, pool, collected,
                   enq, deq>>

\* Pipeline.join: node._engine.join() for the next node returns once every
\* process of the node has ended; after the last node join() returns, and
\* with it run().
JoinNode ==
    LET n == nodes[mi]
    IN /\ mpc = "joining"
       /\ IF ~locked[n]
          THEN mpc' = "RuntimeError" /\ mi' = mi
          ELSE /\ \A w \in Workers(n) : Ended(procs[n][w])
               /\ IF mi = Len(nodes)
                  THEN mpc' = "returned" /\ mi' = mi
                  ELSE mpc' = mpc /\ mi' = mi + 1
       /\ UNCHANGED <<graph, caller, queue, locked, states, procs, pool, collected, enq, deq>>

MainStep == RunAsyncValidate \/ RunAsyncNode \/ PipelineJoin \/ JoinNode

\* ------------------------------------------------------------- pipelines
\* Extract -> Transform -> Load of tests/functional_tests/test_etl_pipeline.py
\* (ten items there, NumItems here).
Etl ==
    [nodes |-> <<"E", "T", "L">>,
     kind |-> ("E" :> "source" @@ "T" :> "relay" @@ "L" :> "sink"),
     inputs |-> ("E" :> <<>> @@ "T" :> <<"T.input">> @@ "L" :> <<"L.input">>),
     outputs |-> ("E" :> <<"E.output">> @@ "T" :> <<"T.output">> @@ "L" :> <<>>),
     edges |-> {<<"E.output", "T.input">>, <<"T.output", "L.input">>},
     maxsize |-> ("T.input" :> 0 @@ "L.input" :> 0),
     nprocs |-> ("E" :> ExtractProcs @@ "T" :> TransformProcs @@ "L" :> LoadProcs),
     pool |-> ("E" :> [k \in 1..NumItems |-> k])]

\* One output connected to two inputs, one of them bounded (maxsize=1).
FanOut ==
    [nodes |-> <<"S", "A", "B">>,
     kind |-> ("S" :> "source" @@ "A" :> "sink" @@ "B" :> "sink"),
     inputs |-> ("S" :> <<>> @@ "A" :> <<"A.input">> @@ "B" :> <<"B.input">>),
     outputs |-> ("S" :> <<"S.output">> @@ "A" :> <<>> @@ "B" :> <<>>),
     edges |-> {<<"S.output", "A.input">>, <<"S.output", "B.input">>},
     maxsize |-> ("A.input" :> 1 @@ "B.input" :> 0),
     nprocs |-> ("S" :> 2 @@ "A" :> 1 @@ "B" :> 1),
     pool |-> ("S" :> [k \in 1..NumItems |-> k])]

\* The pipeline of tests/functional_tests/test_even_odd_pipeline.py: two
\* generators feed the one input of the sorter, which routes by parity to
\* two collectors (2/2/3/1/1 processes and five items a generator there;
\* 1/1/2/1/1 processes and one item a generator here).
EvenOdd ==
    [nodes |-> <<"GO", "GE", "N", "KE", "KO">>,
     kind |-> ("GO" :> "source" @@ "GE" :> "source" @@ "N" :> "sorter"
               @@ "KE" :> "sink" @@ "KO" :> "sink"),
     inputs |-> ("GO" :> <<>> @@ "GE" :> <<>> @@ "N" :> <<"N.input">>
                 @@ "KE" :> <<"KE.input">> @@ "KO" :> <<"KO.input">>),
     outputs |-> ("GO" :> <<"GO.output">> @@ "GE" :> <<"GE.output">>
                  @@ "N" :> <<"N.even_output", "N.odd_output">>
                  @@ "KE" :> <<>> @@ "KO" :> <<>>),
     edges |-> {<<"GO.output", "N.input">>, <<"GE.output", "N.input">>,
                <<"N.even_output", "KE.input">>, <<"N.odd_output", "KO.input">>},
     maxsize |-> ("N.input" :> 0 @@ "KE.input" :> 0 @@ "KO.input" :> 0),
     nprocs |-> ("GO" :> 1 @@ "GE" :> 1 @@ "N" :> 2 @@ "KE" :> 1 @@ "KO" :> 1),
     pool |-> ("GO" :> <<1>> @@ "GE" :> <<2>>)]

Pipelines == {Etl, FanOut, EvenOdd}

\* Two producers with one worker each put NumItems items apiece into the one
\* input of a collector.
FanIn ==
    [nodes |-> <<"P", "Q", "K">>,
     kind |-> ("P" :> "source" @@ "Q" :> "source" @@ "K" :> "sink"),
     inputs |-> ("P" :> <<>> @@ "Q" :> <<>> @@ "K" :> <<"K.input">>),
     outputs |-> ("P" :> <<"P.output">> @@ "Q" :> <<"Q.output">> @@ "K" :> <<>>),
     edges |-> {<<"P.output", "K.input">>, <<"Q.output", "K.input">>},
     maxsize |-> ("K.input" :> 0),
     nprocs |-> ("P" :> 1 @@ "Q" :> 1 @@ "K" :> 1),
     pool |-> ("P" :> [k \in 1..NumItems |-> k]
               @@ "Q" :> [k \in 1..NumItems |-> NumItems + k])]

\* The input connectors of the graph t that were made on their own,
\* InputConnector(), and so have no parent node.
Free(t) == IF "free" \in DOMAIN t THEN t.free ELSE {}

\* The state after the pipeline's __init__ built and connected the graph t.
Built(t) ==
    LET ns == Range(t.nodes)
        ins == UNION {Range(t.inputs[n]) : n \in ns} \cup Free(t)
        outs == UNION {Range(t.outputs[n]) : n \in ns}
    IN /\ nodes = t.nodes
       /\ kind = t.kind
       /\ inputs = t.inputs
       /\ outputs = t.outputs
       /\ node = [c \in ins \cup outs |->
                    IF c \in Free(t) THEN None
                    ELSE CHOOSE n \in ns : c \in Range(t.inputs[n]) \cup Range(t.outputs[n])]
       /\ partners = [c \in ins \cup outs |->
                        {d \in ins \cup outs : <<c, d>> \in t.edges \/ <<d, c>> \in t.edges}]
       /\ porder \in {f \in [outs -> UNION {Perms(S) : S \in SUBSET ins}] :
                        \A o \in outs : f[o] \in Perms(partners[o])}
       /\ maxsize = t.maxsize
       /\ queue = [i \in ins |-> <<>>]
       /\ locked = [n \in ns |-> FALSE]
       /\ states = [n \in ns |-> [w \in 1..t.nprocs[n] |-> FALSE]]
       /\ procs = [n \in ns |-> [w \in 1..t.nprocs[n] |-> NewProc]]
       /\ pool = t.pool
       /\ collected = [n \in {m \in ns : t.kind[m] = "sink"} |-> <<>>]
       /\ mpc = "new"
       /\ mi = 0
       /\ enq = [i \in ins |-> <<>>]
       /\ deq = [i \in ins |-> <<>>]
       /\ call = NoCall
       /\ events = <<>>

Init ==
    /\ \E t \in Pipelines : Built(t)
    /\ logging = FALSE
    /\ caller = NewProc

\* Some worker of some node takes the step.
SomeSourceTake == \E n \in AllNodes : \E w \in Workers(n) : SourceTake(n, w)

SomeSourceDone == \E n \in AllNodes : \E w \in Workers(n) : SourceDone(n, w)

SomeIterGetNext == \E n \in AllNodes : \E w \in Workers(n) : IterGetNext(n, w)

SomeGetItem == \E n \in AllNodes : \E w \in Workers(n) : GetItem(n, w)

SomeGetEmpty == \E n \in AllNodes : \E w \in Workers(n) : GetEmpty(n, w)

SomeGetCheck == \E n \in AllNodes : \E w \in Workers(n) : GetCheck(n, w)

SomePutPartner == \E n \in AllNodes : \E w \in Workers(n) : PutPartner(n, w)

Next ==
    \/ RunAsyncValidate
    \/ RunAsyncNode
    \/ PipelineJoin
    \/ JoinNode
    \/ SomeSourceTake
    \/ SomeSourceDone
    \/ SomeIterGetNext
    \/ SomeGetItem
    \/ SomeGetEmpty
    \/ SomeGetCheck
    \/ SomePutPartner

Spec == Init /\ [][Next]_vars

\* The fan-in pipeline, every worker keeping the log of its put calls.
InitLog ==
    /\ Built(FanIn)
    /\ logging = TRUE
    /\ caller = NewProc

SpecLog == InitLog /\ [][Next]_vars

\* ---------------------------------------------- get called from a test
\* DummyUpstreamNode and DummyDownstreamNode of tests/test_connectors/
\* test_InputConnector.py, upstream.output connected to downstream.input.
\* The upstream action returns at once; the downstream node is never run.
Dummy ==
    [nodes |-> <<"U", "D">>,
     kind |-> ("U" :> "noop" @@ "D" :> "idle"),
     inputs |-> ("U" :> <<>> @@ "D" :> <<"D.input">>),
     outputs |-> ("U" :> <<"U.output">> @@ "D" :> <<>>),
     edges |-> {<<"U.output", "D.input">>},
     maxsize |-> ("D.input" :> 0),
     nprocs |-> ("U" :> 1 @@ "D" :> 1),
     pool |-> ("U" :> [k \in 1..NumItems |-> k])]

\* The connectors the test thread calls get and put on.
CallerInput == "D.input"

CallerOutput == "U.output"

\* Largest finite timeout the test thread passes to get.
MaxTimeout == 3

\* timeout and refresh_interval arguments of get; INF stands for timeout=None.
Timeouts == (0..MaxTimeout) \cup {INF}

Refreshes == 0..DefaultRefresh

\* downstream.input.get(timeout=t, refresh_interval=r) is called.
CallGet ==
    /\ caller.pc = "new"
    /\ \E t \in Timeouts : \E r \in Refreshes : caller' = GetEnter(caller, t, r)
    /\ UNCHANGED <<graph, queue, locked, states, procs, pool, collected, mpc, mi, enq, deq>>

\* get: self._queue.get(timeout=this_timeout) returns an item.
CallGetItem ==
    /\ caller.pc = "wait"
    /\ ~empty(CallerInput)
    /\ queue' = [queue EXCEPT ![CallerInput] = Dequeue(@)]
    /\ deq' = [deq EXCEPT ![CallerInput] = Append(@, Oldest(queue[CallerInput]))]
    /\ caller' = [caller EXCEPT !.pc = "got", !.item = Oldest(queue[CallerInput])]
    /\ UNCHANGED <<graph, locked, states, procs, pool, collected, mpc, mi, enq>>

\* get: the wait on the empty queue expires.
CallGetEmpty ==
    /\ caller.pc = "wait"
    /\ empty(CallerInput)
    /\ caller' = GetOnEmpty(caller)
    /\ UNCHANGED <<graph, queue, locked, states, procs, pool, collected, mpc, mi, enq, deq>>

\* get: the except clause; the exception reaches the test as get raised it.
CallGetCheck ==
    LET r == GetCheckOutcome(caller, CallerInput)
    IN /\ caller.pc = "check"
       /\ caller' = IF r = "wait" THEN [caller EXCEPT !.pc = "wait"]
                    ELSE Raise(caller, r)
       /\ UNCHANGED <<graph, queue, locked, states, procs, pool, collected, mpc, mi, enq, deq>>

\* upstream.output.put(x) is called by the test thread.
CallPut ==
    /\ caller.pc = "new"
    /\ pool[node[CallerOutput]] # <<>>
    /\ pool' = [pool EXCEPT ![node[CallerOutput]] = Tail(@)]
    /\ caller' = PutEnter(caller, CallerOutput, Head(pool[node[CallerOutput]]))
    /\ UNCHANGED <<graph, queue, locked, states, procs, collected, mpc, mi, enq, deq>>

\* put called by the test thread: one round of the loop over the partners.
CallPutPartner ==
    /\ caller.pc = "put"
    /\ caller.todo # <<>>
    /\ CanPut(Head(caller.todo))
    /\ queue' = [queue EXCEPT ![Head(caller.todo)] = Enqueue(@, caller.item)]
    /\ enq' = [enq EXCEPT ![Head(caller.todo)] = Append(@, <<caller.item, caller.out>>)]
    /\ caller' = PutNext(caller, "new")
    /\ UNCHANGED <<graph, locked, states, procs, pool, collected, mpc, mi, deq>>

\* The test is done with the value or the exception of its last call.
CallDone ==
    /\ caller.pc \in {"got", "failed"}
    /\ caller' = NewProc
    /\ UNCHANGED <<graph, queue, locked, states, procs, pool, collected, mpc, mi, enq, deq>>

\* MultiprocessingEngine.run_async of the upstream node, called by the test
\* thread between two calls.
EngineRunAsync ==
    LET n == node[CallerOutput]
    IN /\ caller.pc = "new"
       /\ IF locked[n]
          THEN /\ caller' = Raise(caller, "RuntimeError")
               /\ UNCHANGED <<locked, procs>>
          ELSE /\ locked' = [locked EXCEPT ![n] = TRUE]
               /\ procs' = [procs EXCEPT ![n] = Started(n)]
               /\ UNCHANGED caller
       /\ UNCHANGED <<graph, queue, states, pool, collected, mpc, mi, enq, deq>>

\* DummyUpstreamNode.action: the body is empty and the target returns.
NoopAction(n, w) ==
    /\ kind[n] = "noop"
    /\ procs[n][w].pc = "action"
    /\ TargetReturned(n, w)
    /\ UNCHANGED <<graph, caller, queue, locked, pool, collected, mpc, mi, enq, deq>>

SomeNoopAction == \E n \in AllNodes : \E w \in Workers(n) : NoopAction(n, w)

InitGet ==
    /\ Built(Dummy)
    /\ logging = FALSE
    /\ caller = NewProc

NextGet ==
    \/ CallGet
    \/ CallGetItem
    \/ CallGetEmpty
    \/ CallGetCheck
    \/ CallPut
    \/ CallPutPartner
    \/ CallDone
    \/ EngineRunAsync
    \/ SomeNoopAction

SpecGet == InitGet /\ [][NextGet]_vars

\* -------------------------------------- pool methods called from a test
\* The pipeline of create_valid_pipeline (tests/utils.py): d1.out connected
\* to d2.inp, one process a node.  The hooks of the nodes are user code: each
\* of setup, action and teardown returns or raises.
Valid ==
    [nodes |-> <<"d1", "d2">>,
     kind |-> ("d1" :> "task" @@ "d2" :> "task"),
     inputs |-> ("d1" :> <<>> @@ "d2" :> <<"d2.inp">>),
     outputs |-> ("d1" :> <<"d1.out">> @@ "d2" :> <<>>),
     edges |-> {<<"d1.out", "d2.inp">>},
     maxsize |-> ("d2.inp" :> 0),
     nprocs |-> ("d1" :> 1 @@ "d2" :> 1),
     pool |-> <<>>]

\* A pipeline that no node was created in.
Empty ==
    [nodes |-> <<>>, kind |-> <<>>, inputs |-> <<>>, outputs |-> <<>>, edges |-> {},
     maxsize |-> <<>>, nprocs |-> <<>>, pool |-> <<>>]

\* Largest num_processes the test thread passes to set_num_processes
\* (test_MultiprocessingEngine.py:84).
TestProcs == 2

\* The arguments of set_num_processes: the invalid -1 and 0 of the tests and
\* the valid counts up to TestProcs.
NumProcesses == (-1)..TestProcs

\* The record of a hook call, kept while logging.
Logged(h, n, w) == IF logging THEN Append(events, <<h, n, w>>) ELSE events

\* Node._execute_helper: self.setup() is called and returns or raises.
TaskSetup(n, w) ==
    /\ kind[n] = "task"
    /\ procs[n][w].pc = "setup"
    /\ events' = Logged("setup", n, w)
    /\ \/ Continue(n, w, [procs[n][w] EXCEPT !.pc = "action"])
       \/ TargetRaised(n, w, Raise(procs[n][w], "Exception"))
    /\ UNCHANGED <<static, call, caller, queue, locked, pool, collected, mpc, mi, enq, deq>>

\* Node._execute_helper: self.action() is called and returns or raises.
TaskAction(n, w) ==
    /\ kind[n] = "task"
    /\ procs[n][w].pc = "action"
    /\ events' = Logged("action", n, w)
    /\ \/ Continue(n, w, [procs[n][w] EXCEPT !.pc = "teardown"])
       \/ TargetRaised(n, w, Raise(procs[n][w], "Exception"))
    /\ UNCHANGED <<static, call, caller, queue, locked, pool, collected, mpc, mi, enq, deq>>

\* Node._execute_helper: self.teardown() is called and returns, and with it
\* the target, or raises.
TaskTeardown(n, w) ==
    /\ kind[n] = "task"
    /\ procs[n][w].pc = "teardown"
    /\ events' = Logged("teardown", n, w)
    /\ \/ TargetReturned(n, w)
       \/ TargetRaised(n, w, Raise(procs[n][w], "Exception"))
    /\ UNCHANGED <<static, call, caller, queue, locked, pool, collected, mpc, mi, enq, deq>>

SomeTaskSetup == \E n \in AllNodes : \E w \in Workers(n) : TaskSetup(n, w)

SomeTaskAction == \E n \in AllNodes : \E w \in Workers(n) : TaskAction(n, w)

SomeTaskTeardown == \E n \in AllNodes : \E w \in Workers(n) : TaskTeardown(n, w)

\* The test thread is between two calls.
Idle == call.result # "pending"

\* The record of a method that has returned or raised.
Called(op, n, k, r) ==
    [op |-> op, node |-> n, conn |-> None, arg |-> k, i |-> 0, result |-> r]

\* set_num_processes: k fresh processes and a fresh _states dict of False.
NewProcesses(k) == [w \in 1..k |-> NewProc]

NewStates(k) == [w \in 1..k |-> FALSE]

\* set_num_processes without the check of _locked.
SetNumProcessesUnchecked(n, k) ==
    /\ Idle
    /\ IF k <= 0
       THEN /\ call' = Called("set_num_processes", n, k, "ValueError")
            /\ UNCHANGED <<procs, states>>
       ELSE /\ procs' = [procs EXCEPT ![n] = NewProcesses(k)]
            /\ states' = [states EXCEPT ![n] = NewStates(k)]
            /\ call' = Called("set_num_processes", n, k, "ok")
    /\ UNCHANGED <<static, events, caller, queue, locked, pool, collected, mpc, mi, enq, deq>>

\* MultiprocessingEngine.set_num_processes(k) on the pool of node n.
SetNumProcesses(n, k) ==
    /\ Idle
    /\ IF locked[n]
       THEN /\ call' = Called("set_num_processes", n, k, "RuntimeError")
            /\ UNCHANGED <<procs, states>>
       ELSE IF k <= 0
            THEN /\ call' = Called("set_num_processes", n, k, "ValueError")
                 /\ UNCHANGED <<procs, states>>
            ELSE /\ procs' = [procs EXCEPT ![n] = NewProcesses(k)]
                 /\ states' = [states EXCEPT ![n] = NewStates(k)]
                 /\ call' = Called("set_num_processes", n, k, "ok")
    /\ UNCHANGED <<static, events, caller, queue, locked, pool, collected, mpc, mi, enq, deq>>

\* reset() without the check of is_finished().
ResetUnchecked(n) ==
    /\ Idle
    /\ locked' = [locked EXCEPT ![n] = FALSE]
    /\ procs' = [procs EXCEPT ![n] = NewProcesses(get_num_processes(n))]
    /\ states' = [states EXCEPT ![n] = NewStates(get_num_processes(n))]
    /\ call' = Called("reset", n, 0, "ok")
    /\ UNCHANGED <<static, events, caller, queue, pool, collected, mpc, mi, enq, deq>>

\* reset() that leaves _locked set.
ResetStaysLocked(n) ==
    /\ Idle
    /\ IF ~EngineIsFinished(n)
       THEN /\ call' = Called("reset", n, 0, "RuntimeError")
            /\ UNCHANGED <<procs, states>>
       ELSE /\ procs' = [procs EXCEPT ![n] = NewProcesses(get_num_processes(n))]
            /\ states' = [states EXCEPT ![n] = NewStates(get_num_processes(n))]
            /\ call' = Called("reset", n, 0, "ok")
    /\ UNCHANGED <<static, events, caller, queue, locked, pool, collected, mpc, mi, enq, deq>>

\* MultiprocessingEngine.reset() on the pool of node n, called by the test.
Reset(n) ==
    /\ Idle
    /\ IF ~EngineIsFinished(n)
       THEN /\ call' = Called("reset", n, 0, "RuntimeError")
            /\ UNCHANGED <<locked, procs, states>>
       ELSE /\ locked' = [locked EXCEPT ![n] = FALSE]
            /\ procs' = [procs EXCEPT ![n] = NewProcesses(get_num_processes(n))]
            /\ states' = [states EXCEPT ![n] = NewStates(get_num_processes(n))]
            /\ call' = Called("reset", n, 0, "ok")
    /\ UNCHANGED <<static, events, caller, queue, pool, collected, mpc, mi, enq, deq>>

\* A method of the test thread that is inside a loop or a wait.
Pending(op, n, k, i) ==
    [op |-> op, node |-> n, conn |-> None, arg |-> k, i |-> i, result |-> "pending"]

\* run_async() without the check of _locked.
RunAsyncUnchecked(n) ==
    /\ Idle
    /\ locked' = [locked EXCEPT ![n] = TRUE]
    /\ procs' = [procs EXCEPT ![n] = Started(n)]
    /\ call' = Called("run_async", n, 0, "ok")
    /\ UNCHANGED <<static, events, caller, queue, states, pool, collected, mpc, mi, enq, deq>>

\* MultiprocessingEngine.run_async() on the pool of node n.
RunAsync(n) ==
    /\ Idle
    /\ IF locked[n]
       THEN /\ call' = Called("run_async", n, 0, "RuntimeError")
            /\ UNCHANGED <<locked, procs>>
       ELSE /\ locked' = [locked EXCEPT ![n] = TRUE]
            /\ procs' = [procs EXCEPT ![n] = Started(n)]
            /\ call' = Called("run_async", n, 0, "ok")
    /\ UNCHANGED <<static, events, caller, queue, states, pool, collected, mpc, mi, enq, deq>>

\* MultiprocessingEngine.run(): run_async(), then join(), which waits.
Run(n) ==
    /\ Idle
    /\ IF locked[n]
       THEN /\ call' = Called("run", n, 0, "RuntimeError")
            /\ UNCHANGED <<locked, procs>>
       ELSE /\ locked' = [locked EXCEPT ![n] = TRUE]
            /\ procs' = [procs EXCEPT ![n] = Started(n)]
            /\ call' = Pending("run", n, 0, 0)
    /\ UNCHANGED <<static, events, caller, queue, states, pool, collected, mpc, mi, enq, deq>>

\* MultiprocessingEngine.join(): the check of _locked, before the wait.
Join(n) ==
    /\ Idle
    /\ call' = IF locked[n] THEN Pending("join", n, 0, 0)
               ELSE Called("join", n, 0, "RuntimeError")
    /\ UNCHANGED <<static, events, caller, queue, locked, states, procs, pool,
                   collected, mpc, mi, enq, deq>>

\* MultiprocessingEngine.join(): p.join() has returned for every process.
JoinReturns ==
    /\ call.result = "pending"
    /\ call.op \in {"run", "join"}
    /\ \A w \in Workers(call.node) : Ended(procs[call.node][w])
    /\ call' = Called(call.op, call.node, 0, "ok")
    /\ UNCHANGED <<static, events, caller, queue, locked, states, procs, pool,
                   collected, mpc, mi, enq, deq>>

\* MultiprocessingEngine.kill, the loop: every process that has not returned
\* is killed where it is (one that died of an exception is dead already),
\* and the flag of every process is set.
Killed(n) ==
    [w \in Workers(n) |-> IF procs[n][w].pc = "exited" THEN procs[n][w]
                          ELSE [procs[n][w] EXCEPT !.pc = "killed"]]

\* kill() that sets no flag.
FlagsKept(n) == states[n]

AllTrue(n) == [w \in DOMAIN states[n] |-> TRUE]

\* kill() without the check of _locked.
KillUnchecked(n) ==
    /\ Idle
    /\ procs' = [procs EXCEPT ![n] = Killed(n)]
    /\ states' = [states EXCEPT ![n] = AllTrue(n)]
    /\ call' = Called("kill", n, 0, "ok")
    /\ UNCHANGED <<static, events, caller, queue, locked, pool, collected, mpc, mi, enq, deq>>

\* MultiprocessingEngine.kill() on the pool of node n.
Kill(n) ==
    /\ Idle
    /\ IF ~locked[n]
       THEN /\ call' = Called("kill", n, 0, "RuntimeError")
            /\ UNCHANGED <<procs, states>>
       ELSE /\ procs' = [procs EXCEPT ![n] = Killed(n)]
            /\ states' = [states EXCEPT ![n] = AllTrue(n)]
            /\ call' = Called("kill", n, 0, "ok")
    /\ UNCHANGED <<static, events, caller, queue, locked, pool, collected, mpc, mi, enq, deq>>

\* The call record when a loop over the nodes starts: over no node, the
\* method returns at once.
Loop(op) ==
    IF nodes = <<>> THEN Called(op, None, 0, "ok") ELSE Pending(op, None, 0, 1)

\* Fault injection for run_async: the loop starts without validate().
PipelineRunAsyncUnvalidated ==
    /\ Idle
    /\ call' = Loop("pipeline.run_async")
    /\ UNCHANGED <<static, events, caller, queue, locked, states, procs, pool,
                   collected, mpc, mi, enq, deq>>

\* Pipeline.run() called by the test: run_async() first, so validate(),
\* and the loop that starts the pools; join() follows (arg 1).
PipelineRunCalled ==
    /\ Idle
    /\ call' = IF validate = "ok" THEN Loop("pipeline.run")
               ELSE Called("pipeline.run", None, 0, validate)
    /\ UNCHANGED <<static, events, caller, queue, locked, states, procs, pool,
                   collected, mpc, mi, enq, deq>>

\* Pipeline.run_async() called by the test: validate(), and the loop starts.
PipelineRunAsyncCalled ==
    /\ Idle
    /\ call' = IF validate = "ok" THEN Loop("pipeline.run_async")
               ELSE Called("pipeline.run_async", None, 0, validate)
    /\ UNCHANGED <<static, events, caller, queue, locked, states, procs, pool,
                   collected, mpc, mi, enq, deq>>

\* Pipeline.join() / Pipeline.kill() called by the test: the loop starts.
PipelineJoinCalled ==
    /\ Idle
    /\ call' = Loop("pipeline.join")
    /\ UNCHANGED <<static, events, caller, queue, locked, states, procs, pool,
                   collected, mpc, mi, enq, deq>>

PipelineKillCalled ==
    /\ Idle
    /\ call' = Loop("pipeline.kill")
    /\ UNCHANGED <<static, events, caller, queue, locked, states, procs, pool,
                   collected, mpc, mi, enq, deq>>

\* The call record after the loop of a pipeline method is done with node i.
NextNode(r) ==
    IF call.i = Len(nodes) THEN Called(call.op, None, 0, r)
    ELSE [call EXCEPT !.i = @ + 1]

\* Pipeline.run_async: node._engine.run_async() for node i.
PipelineRunAsyncNode ==
    LET n == nodes[call.i]
    IN /\ call.result = "pending"
       /\ call.op = "pipeline.run_async" \/ (call.op = "pipeline.run" /\ call.arg = 0)
       /\ IF locked[n]
          THEN /\ call' = Called(call.op, n, 0, "RuntimeError")
               /\ UNCHANGED <<locked, procs>>
          ELSE /\ locked' = [locked EXCEPT ![n] = TRUE]
               /\ procs' = [procs EXCEPT ![n] = Started(n)]
               /\ call' = IF call.op = "pipeline.run" /\ call.i = Len(nodes)
                          THEN Pending("pipeline.run", None, 1, 1)
                          ELSE NextNode("ok")
       /\ UNCHANGED <<static, events, caller, queue, states, pool, collected, mpc, mi, enq, deq>>

\* Pipeline.join: node._engine.join() for node i raises, or returns once
\* every process of the node has ended.
PipelineJoinNode ==
    LET n == nodes[call.i]
    IN /\ call.result = "pending"
       /\ call.op = "pipeline.join" \/ (call.op = "pipeline.run" /\ call.arg = 1)
       /\ IF ~locked[n]
          THEN call' = Called(call.op, n, 0, "RuntimeError")
          ELSE /\ \A w \in Workers(n) : Ended(procs[n][w])
               /\ call' = NextNode("ok")
       /\ UNCHANGED <<static, events, caller, queue, locked, states, procs, pool,
                      collected, mpc, mi, enq, deq>>

\* Pipeline.kill: node._engine.kill() for node i.
PipelineKillNode ==
    LET n == nodes[call.i]
    IN /\ call.result = "pending"
       /\ call.op = "pipeline.kill"
       /\ IF ~locked[n]
          THEN /\ call' = Called(call.op, n, 0, "RuntimeError")
               /\ UNCHANGED <<procs, states>>
          ELSE /\ procs' = [procs EXCEPT ![n] = Killed(n)]
               /\ states' = [states EXCEPT ![n] = AllTrue(n)]
               /\ call' = NextNode("ok")
       /\ UNCHANGED <<static, events, caller, queue, locked, pool, collected, mpc, mi, enq, deq>>

SomeSetNumProcesses ==
    \E n \in AllNodes : \E k \in NumProcesses : SetNumProcesses(n, k)

SomeReset == \E n \in AllNodes : Reset(n)

SomeRunAsync == \E n \in AllNodes : RunAsync(n)

SomeRun == \E n \in AllNodes : Run(n)

SomeJoin == \E n \in AllNodes : Join(n)

SomeKill == \E n \in AllNodes : Kill(n)

InitEngine ==
    /\ \E t \in {Valid, Empty} : Built(t)
    /\ logging = FALSE
    /\ caller = NewProc

NextEngine ==
    \/ SomeSetNumProcesses
    \/ SomeReset
    \/ SomeRunAsync
    \/ SomeRun
    \/ SomeJoin
    \/ JoinReturns
    \/ SomeKill
    \/ PipelineRunAsyncCalled
    \/ PipelineRunCalled
    \/ PipelineRunAsyncNode
    \/ PipelineJoinCalled
    \/ PipelineJoinNode
    \/ PipelineKillCalled
    \/ PipelineKillNode
    \/ SomeTaskSetup
    \/ SomeTaskAction
    \/ SomeTaskTeardown

SpecEngine == InitEngine /\ [][NextEngine]_vars

\* ----------------------------------------------- Node.execute from a test
\* Most calls of execute() the test thread makes.
MaxExecutes == 2

\* The calls of execute() made so far: each one ran class_setup.
Executes == Len(SelectSeq(events, LAMBDA e : e[1] = "class_setup"))

\* Node.execute() on node n: class_setup() runs in the calling thread, then
\* self._engine.run() starts the pool, or raises on a pool that is locked.
\* The two class hooks are taken to return.
Execute(n) ==
    /\ Idle
    /\ Executes < MaxExecutes
    /\ events' = Logged("class_setup", n, 0)
    /\ IF locked[n]
       THEN /\ call' = Called("execute", n, 0, "RuntimeError")
            /\ UNCHANGED <<locked, procs>>
       ELSE /\ locked' = [locked EXCEPT ![n] = TRUE]
            /\ procs' = [procs EXCEPT ![n] = Started(n)]
            /\ call' = Pending("execute", n, 0, 0)
    /\ UNCHANGED <<static, caller, queue, states, pool, collected, mpc, mi, enq, deq>>

\* Node.execute(), the wait inside run() that returns at once.
ExecuteReturnsEarly ==
    /\ call.result = "pending"
    /\ call.op = "execute"
    /\ events' = Logged("class_teardown", call.node, 0)
    /\ call' = Called("execute", call.node, 0, "ok")
    /\ UNCHANGED <<static, caller, queue, locked, states, procs, pool, collected,
                   mpc, mi, enq, deq>>

\* Node.execute(): the join inside run() has returned for every process;
\* class_teardown() runs and execute() returns.
ExecuteReturns ==
    /\ call.result = "pending"
    /\ call.op = "execute"
    /\ \A w \in Workers(call.node) : Ended(procs[call.node][w])
    /\ events' = Logged("class_teardown", call.node, 0)
    /\ call' = Called("execute", call.node, 0, "ok")
    /\ UNCHANGED <<static, caller, queue, locked, states, procs, pool, collected,
                   mpc, mi, enq, deq>>

SomeExecute == \E n \in AllNodes : Execute(n)

\* The nodes are created with any num_processes from 1 to TestProcs.
InitExecute ==
    /\ \E np \in [Range(Valid.nodes) -> 1..TestProcs] : Built([Valid EXCEPT !.nprocs = np])
    /\ logging = TRUE
    /\ caller = NewProc

NextExecute ==
    \/ SomeExecute
    \/ ExecuteReturns
    \/ SomeTaskSetup
    \/ SomeTaskAction
    \/ SomeTaskTeardown

SpecExecute == InitExecute /\ [][NextExecute]_vars

\* ------------------------------------------- connectors wired from a test
\* Nodes made one by one, as in tests/test_nodes/test_Node.py: n1 with two
\* outputs, n2 with two inputs and an output, n3 with no connector, an input
\* connector of no node as in tests/test_connectors, and nothing connected
\* yet.  n1 has one item to put.
Loose ==
    [nodes |-> <<"n1", "n2", "n3">>,
     kind |-> ("n1" :> "task" @@ "n2" :> "task" @@ "n3" :> "task"),
     inputs |-> ("n1" :> <<>> @@ "n2" :> <<"n2.in1", "n2.in2">> @@ "n3" :> <<>>),
     outputs |-> ("n1" :> <<"n1.out1", "n1.out2">> @@ "n2" :> <<"n2.out">> @@ "n3" :> <<>>),
     edges |-> {},
     free |-> {"inp"},
     maxsize |-> ("n2.in1" :> 0 @@ "n2.in2" :> 0 @@ "inp" :> 0),
     nprocs |-> ("n1" :> 1 @@ "n2" :> 1 @@ "n3" :> 1),
     pool |-> ("n1" :> <<1>> @@ "n2" :> <<>> @@ "n3" :> <<>>)]

\* The record of a call on connector o with the argument c; k is the item of
\* a put and, for connect and disconnect, the number of partners o had when
\* the call was made.
CalledOn(op, o, c, k, r) == [Called(op, node[o], k, r) EXCEPT !.conn = <<o, c>>]

\* The iteration order of o's partner set after the set became ps.
Reordered(o, ps) == porder' \in {[porder EXCEPT ![o] = q] : q \in Perms(ps)}

\* connect that forgets conn._add_partner(self).
ConnectOneSided(o, c) ==
    /\ Idle
    /\ caller.pc = "new"
    /\ IF c \in AllOutputs
       THEN /\ call' = CalledOn("connect", o, c, Cardinality(partners[o]), "ValueError")
            /\ UNCHANGED <<partners, porder>>
       ELSE /\ partners' = [partners EXCEPT ![o] = @ \cup {c}]
            /\ Reordered(o, partners[o] \cup {c})
            /\ call' = CalledOn("connect", o, c, Cardinality(partners[o]), "ok")
    /\ UNCHANGED <<nodes, kind, inputs, outputs, node, maxsize, logging, events, caller,
                   queue, locked, states, procs, pool, collected, mpc, mi, enq, deq>>

\* connect that keeps the partners in a list: a partner connected again is
\* listed again.
ConnectAsList(o, c) ==
    /\ Idle
    /\ caller.pc = "new"
    /\ IF c \in AllOutputs
       THEN /\ call' = CalledOn("connect", o, c, Cardinality(partners[o]), "ValueError")
            /\ UNCHANGED <<partners, porder>>
       ELSE /\ partners' = [partners EXCEPT ![o] = @ \cup {c}, ![c] = @ \cup {o}]
            /\ porder' = [porder EXCEPT ![o] = Append(@, c)]
            /\ call' = CalledOn("connect", o, c, Cardinality(partners[o]), "ok")
    /\ UNCHANGED <<nodes, kind, inputs, outputs, node, maxsize, logging, events, caller,
                   queue, locked, states, procs, pool, collected, mpc, mi, enq, deq>>

\* connect without the check of the argument's type.
ConnectUntyped(o, c) ==
    /\ Idle
    /\ caller.pc = "new"
    /\ partners' = [partners EXCEPT ![o] = @ \cup {c}, ![c] = @ \cup {o}]
    /\ Reordered(o, partners[o] \cup {c})
    /\ call' = CalledOn("connect", o, c, Cardinality(partners[o]), "ok")
    /\ UNCHANGED <<nodes, kind, inputs, outputs, node, maxsize, logging, events, caller,
                   queue, locked, states, procs, pool, collected, mpc, mi, enq, deq>>

\* OutputConnector.connect(c) on output o.
Connect(o, c) ==
    /\ Idle
    /\ caller.pc = "new"
    /\ IF c \in AllOutputs
       THEN /\ call' = CalledOn("connect", o, c, Cardinality(partners[o]), "ValueError")
            /\ UNCHANGED <<partners, porder>>
       ELSE /\ partners' = [partners EXCEPT ![o] = @ \cup {c}, ![c] = @ \cup {o}]
            /\ Reordered(o, partners[o] \cup {c})
            /\ call' = CalledOn("connect", o, c, Cardinality(partners[o]), "ok")
    /\ UNCHANGED <<nodes, kind, inputs, outputs, node, maxsize, logging, events, caller,
                   queue, locked, states, procs, pool, collected, mpc, mi, enq, deq>>

\* disconnect that drops every partner of o.
DisconnectClears(o, c) ==
    /\ Idle
    /\ caller.pc = "new"
    /\ IF c \notin partners[o]
       THEN /\ call' = CalledOn("disconnect", o, c, Cardinality(partners[o]),
                                "MissingConnectionError")
            /\ UNCHANGED <<partners, porder>>
       ELSE /\ partners' = [partners EXCEPT ![o] = {}, ![c] = @ \ {o}]
            /\ Reordered(o, {})
            /\ call' = CalledOn("disconnect", o, c, Cardinality(partners[o]), "ok")
    /\ UNCHANGED <<nodes, kind, inputs, outputs, node, maxsize, logging, events, caller,
                   queue, locked, states, procs, pool, collected, mpc, mi, enq, deq>>

\* OutputConnector.disconnect(c) on output o.
Disconnect(o, c) ==
    /\ Idle
    /\ caller.pc = "new"
    /\ IF c \notin partners[o]
       THEN /\ call' = CalledOn("disconnect", o, c, Cardinality(partners[o]),
                                "MissingConnectionError")
            /\ UNCHANGED <<partners, porder>>
       ELSE /\ partners' = [partners EXCEPT ![o] = @ \ {c}, ![c] = @ \ {o}]
            /\ Reordered(o, partners[o] \ {c})
            /\ call' = CalledOn("disconnect", o, c, Cardinality(partners[o]), "ok")
    /\ UNCHANGED <<nodes, kind, inputs, outputs, node, maxsize, logging, events, caller,
                   queue, locked, states, procs, pool, collected, mpc, mi, enq, deq>>

\* Node.validate that looks at the inputs only.
NodeValidateInputsOnly(n) ==
    IF inputs[n] = <<>> /\ outputs[n] = <<>>
    THEN "NodeValidationError: no connectors"
    ELSE IF \E k \in 1..Len(inputs[n]) : ~is_connected(inputs[n][k])
    THEN "NodeValidationError: unconnected input"
    ELSE "ok"

\* Node.validate: the error it raises, or "ok".
NodeValidate(n) ==
    IF inputs[n] = <<>> /\ outputs[n] = <<>>
    THEN "NodeValidationError: no connectors"
    ELSE IF \E k \in 1..Len(inputs[n]) : ~is_connected(inputs[n][k])
    THEN "NodeValidationError: unconnected input"
    ELSE IF \E k \in 1..Len(outputs[n]) : ~is_connected(outputs[n][k])
    THEN "NodeValidationError: unconnected output"
    ELSE "ok"

\* Node.validate() on node n, called by the test.
ValidateNode(n) ==
    /\ Idle
    /\ caller.pc = "new"
    /\ call' = Called("validate", n, 0, NodeValidate(n))
    /\ UNCHANGED <<static, events, caller, queue, locked, states, procs, pool,
                   collected, mpc, mi, enq, deq>>

\* OutputConnector.put(x) on output o, called by the test with the next item
\* of o's node: the check of the connection, and the record of the call.
\* The loop over the partners follows in CallPutPartner.
PutOn(o) ==
    LET x == Head(pool[node[o]])
        p == PutEnter(caller, o, x)
    IN /\ Idle
       /\ caller.pc = "new"
       /\ pool[node[o]] # <<>>
       /\ pool' = [pool EXCEPT ![node[o]] = Tail(@)]
       /\ caller' = p
       /\ call' = CalledOn("put", o, None, x, IF p.pc = "failed" THEN p.exc ELSE "ok")
       /\ UNCHANGED <<static, events, queue, locked, states, procs, collected, mpc, mi,
                      enq, deq>>

\* iter_get that skips the check of the parent node and goes on to get.
IterGetUnchecked(i, t, r) ==
    LET p == GetEnter(caller, t, r)
    IN /\ Idle
       /\ caller.pc = "new"
       /\ caller' = p
       /\ call' = CalledOn("iter_get", i, None, 0,
                           IF p.pc = "failed" THEN p.exc ELSE "pending")
       /\ UNCHANGED <<static, events, queue, locked, states, procs, pool, collected, mpc,
                      mi, enq, deq>>

\* next(i.iter_get(timeout=t, refresh_interval=r)) on input i, called by the
\* test: the generator runs to its first yield.  An input of no node raises
\* before it looks at the queue; otherwise the generator is over when the
\* node expects no data, and else enters get with the two arguments.
IterGetOn(i, t, r) ==
    LET p == IF node[i] = None THEN Raise(caller, "MissingConnectionError")
             ELSE IF IsExpectingData(node[i]) THEN GetEnter(caller, t, r)
             ELSE caller
    IN /\ Idle
       /\ caller.pc = "new"
       /\ caller' = p
       /\ call' = CalledOn("iter_get", i, None, 0,
                           IF p.pc = "failed" THEN p.exc
                           ELSE IF p.pc = "new" THEN "StopIteration" ELSE "pending")
       /\ UNCHANGED <<static, events, queue, locked, states, procs, pool, collected, mpc,
                      mi, enq, deq>>

SomeConnect == \E o \in AllOutputs : \E c \in AllInputs \cup AllOutputs : Connect(o, c)

SomeDisconnect == \E o \in AllOutputs : \E c \in AllInputs \cup AllOutputs : Disconnect(o, c)

SomeValidateNode == \E n \in AllNodes : ValidateNode(n)

SomePutOn == \E o \in AllOutputs : PutOn(o)

\* The tests call iter_get by hand only on an input of no node.
SomeIterGetOn ==
    \E i \in {c \in DOMAIN queue : node[c] = None} : IterGetOn(i, INF, DefaultRefresh)

\* The test starts with nothing connected, or with the input of no node
\* connected to n1.out2 (test_OutputConnector.py:15-19).
InitConnect ==
    /\ \E es \in {{}, {<<"n1.out2", "inp">>}} : Built([Loose EXCEPT !.edges = es])
    /\ logging = FALSE
    /\ caller = NewProc

NextConnect ==
    \/ SomeConnect
    \/ SomeDisconnect
    \/ SomeValidateNode
    \/ SomePutOn
    \/ SomeIterGetOn
    \/ CallPutPartner
    \/ CallDone

SpecConnect == InitConnect /\ [][NextConnect]_vars

\* ------------------------------------ get called with all its arguments
\* An input connector of no node, InputConnector(), as in the Get tests of
\* tests/test_connectors/test_InputConnector.py.  The tests fill it with
\* _put; here the items come through an output connected to it, whose put
\* calls _put.
Lone ==
    [nodes |-> <<"U">>,
     kind |-> ("U" :> "noop"),
     inputs |-> ("U" :> <<>>),
     outputs |-> ("U" :> <<"U.output">>),
     edges |-> {<<"U.output", "D.input">>},
     free |-> {"D.input"},
     maxsize |-> ("D.input" :> 0),
     nprocs |-> ("U" :> 1),
     pool |-> ("U" :> [k \in 1..NumItems |-> k])]

\* input.get(timeout=t, refresh_interval=r) is called by the test; the call
\* is recorded with its two arguments, and with the exception it raised at
\* once or "wait" when it went on to wait on the queue.
GetOn(t, r) ==
    LET p == GetEnter(caller, t, r)
    IN /\ Idle
       /\ caller.pc = "new"
       /\ caller' = p
       /\ call' = [CalledOn("get", CallerInput, None, t,
                            IF p.pc = "failed" THEN p.exc ELSE "wait")
                     EXCEPT !.i = r]
       /\ UNCHANGED <<static, events, queue, locked, states, procs, pool, collected, mpc,
                      mi, enq, deq>>

\* The tests pass a negative timeout, zero, positive ones and None.
SomeGetOn == \E t \in {-1} \cup Timeouts : \E r \in Refreshes : GetOn(t, r)

\* The tests advance iter_get by hand with a negative timeout
\* (test_InputConnector.py:204-209).
SomeIterGetNegative == \E r \in Refreshes : IterGetOn(CallerInput, -1, r)

InitGetOn ==
    /\ \E t \in {Dummy, Lone} : Built(t)
    /\ logging = FALSE
    /\ caller = NewProc

NextGetOn ==
    \/ SomeGetOn
    \/ SomeIterGetNegative
    \/ CallGetItem
    \/ CallGetEmpty
    \/ CallGetCheck
    \/ CallPut
    \/ CallPutPartner
    \/ CallDone
    \/ EngineRunAsync
    \/ SomeNoopAction

SpecGetOn == InitGetOn /\ [][NextGetOn]_vars

\* ------------------------------------------ pipelines that are validated
\* The pipeline of create_disconnected_pipeline (tests/utils.py): the valid
\* pipeline and a second connected pair.
Disconnected ==
    [nodes |-> <<"d1", "d2", "d3", "d4">>,
     kind |-> [n \in {"d1", "d2", "d3", "d4"} |-> "task"],
     inputs |-> ("d1" :> <<>> @@ "d2" :> <<"d2.inp">> @@ "d3" :> <<>> @@ "d4" :> <<"d4.inp">>),
     outputs |-> ("d1" :> <<"d1.out">> @@ "d2" :> <<>> @@ "d3" :> <<"d3.out">> @@ "d4" :> <<>>),
     edges |-> {<<"d1.out", "d2.inp">>, <<"d3.out", "d4.inp">>},
     maxsize |-> ("d2.inp" :> 0 @@ "d4.inp" :> 0),
     nprocs |-> [n \in {"d1", "d2", "d3", "d4"} |-> 1],
     pool |-> <<>>]

\* Three nodes with an input and an output each, as create_cyclic_pipeline
\* gives d1 and d2, and the connections es between them.
Wired(es) ==
    [nodes |-> <<"d1", "d2", "d3">>,
     kind |-> [n \in {"d1", "d2", "d3"} |-> "task"],
     inputs |-> [n \in {"d1", "d2", "d3"} |->
                   <<CHOOSE c \in {"d1.inp", "d2.inp", "d3.inp"} :
                        \E e \in {<<"d1", "d1.inp">>, <<"d2", "d2.inp">>, <<"d3", "d3.inp">>} :
                            e = <<n, c>>>>],
     outputs |-> [n \in {"d1", "d2", "d3"} |->
                    <<CHOOSE c \in {"d1.out", "d2.out", "d3.out"} :
                         \E e \in {<<"d1", "d1.out">>, <<"d2", "d2.out">>, <<"d3", "d3.out">>} :
                             e = <<n, c>>>>],
     edges |-> es,
     maxsize |-> [i \in {"d1.inp", "d2.inp", "d3.inp"} |-> 0],
     nprocs |-> [n \in {"d1", "d2", "d3"} |-> 1],
     pool |-> <<>>]

\* Every connection an output of the three nodes can have.
Links == {"d1.out", "d2.out", "d3.out"} \X {"d1.inp", "d2.inp", "d3.inp"}

\* Pipeline.validate() called by the test.
ValidatePipeline ==
    /\ Idle
    /\ call' = Called("pipeline.validate", None, 0, validate)
    /\ UNCHANGED <<static, events, caller, queue, locked, states, procs, pool,
                   collected, mpc, mi, enq, deq>>

InitValidate ==
    /\ \E t \in {Valid, Empty, Disconnected} \cup {Wired(es) : es \in SUBSET Links} : Built(t)
    /\ logging = FALSE
    /\ caller = NewProc

NextValidate ==
    \/ ValidatePipeline
    \/ PipelineRunAsyncCalled
    \/ PipelineRunCalled
    \/ PipelineRunAsyncNode
    \/ PipelineJoinNode
    \/ SomeTaskSetup
    \/ SomeTaskAction
    \/ SomeTaskTeardown

SpecValidate == InitValidate /\ [][NextValidate]_vars

\* The pipeline of create_valid_pipeline, one process a node, run through
\* Pipeline.run() and Pipeline.run_async() with the hook calls logged.
InitRunLogged ==
    /\ Built(Valid)
    /\ logging = TRUE
    /\ caller = NewProc

SpecRunLogged == InitRunLogged /\ [][NextValidate]_vars

\* ------------------------------------------------------- engine reset
\* MultiprocessingEngine.reset of node n, called by the thread that called
\* run_async() or run() on the pipeline: RuntimeError unless the pool has
\* finished; otherwise the pool is unlocked and set_num_processes builds
\* fresh processes and a fresh _states dict with every flag False.
EngineReset(n) ==
    /\ mpc \in {"async", "returned"}
    /\ IF ~EngineIsFinished(n)
       THEN /\ mpc' = "RuntimeError"
            /\ UNCHANGED <<locked, procs, states>>
       ELSE /\ locked' = [locked EXCEPT ![n] = FALSE]
            /\ procs' = [procs EXCEPT ![n] = [w \in 1..get_num_processes(n) |-> NewProc]]
            /\ states' = [states EXCEPT ![n] = [w \in 1..get_num_processes(n) |-> FALSE]]
            /\ mpc' = mpc
    /\ UNCHANGED <<graph, caller, queue, pool, collected, mi, enq, deq>>

SomeEngineReset == \E n \in AllNodes : EngineReset(n)

NextReset ==
    \/ RunAsyncValidate
    \/ RunAsyncNode
    \/ PipelineJoin
    \/ JoinNode
    \/ SomeSourceTake
    \/ SomeSourceDone
    \/ SomeIterGetNext
    \/ SomeGetItem
    \/ SomeGetEmpty
    \/ SomeGetCheck
    \/ SomePutPartner
    \/ SomeEngineReset

SpecReset == Init /\ [][NextReset]_vars

\* Every node name and worker index the pipelines above use.
NodeIds == UNION {Range(t.nodes) : t \in Pipelines}

WorkerIds == 1..ExtractProcs

Worker(n, w) == n \in AllNodes /\ w \in Workers(n) /\ WorkerStep(n, w)

\* The operating system schedules every process: the main thread and every
\* worker process that can take a step eventually takes one.
FairSpec ==
    /\ Init
    /\ [][Next]_vars
    /\ WF_vars(MainStep)
    /\ \A n \in NodeIds : \A w \in WorkerIds : WF_vars(Worker(n, w))

\* ------------------------------------------------- kill of a running pool
\* The fan-out pipeline is run while the thread that started it may call
\* MultiprocessingEngine.kill() on the pool of any node at any moment.
InitShutdown ==
    /\ Built(FanOut)
    /\ logging = FALSE
    /\ caller = NewProc

NextShutdown == Next \/ SomeKill

\* The operating system schedules the main thread and every worker process
\* that is alive; nothing obliges the user to call kill().
SpecShutdown ==
    /\ InitShutdown
    /\ [][NextShutdown]_vars
    /\ WF_vars(MainStep)
    /\ \A n \in Range(FanOut.nodes) : \A w \in WorkerIds : WF_vars(Worker(n, w))

\* ------------------------------------------------- a node with two inputs
\* Two producers feed the two inputs of one collector, whose action iterates
\* over its first input only (`for x in self.a.iter_get()`): nothing ever
\* removes what the second producer, with the items qs, puts into J.b.
TwoIn(qs) ==
    [nodes |-> <<"P", "Q", "J">>,
     kind |-> ("P" :> "source" @@ "Q" :> "source" @@ "J" :> "sink"),
     inputs |-> ("P" :> <<>> @@ "Q" :> <<>> @@ "J" :> <<"J.a", "J.b">>),
     outputs |-> ("P" :> <<"P.output">> @@ "Q" :> <<"Q.output">> @@ "J" :> <<>>),
     edges |-> {<<"P.output", "J.a">>, <<"Q.output", "J.b">>},
     maxsize |-> ("J.a" :> 0 @@ "J.b" :> 0),
     nprocs |-> ("P" :> 1 @@ "Q" :> 1 @@ "J" :> 2),
     pool |-> ("P" :> [k \in 1..NumItems |-> k] @@ "Q" :> qs)]

InitTwoIn ==
    /\ \E qs \in {<<>>, <<NumItems + 1>>} : Built(TwoIn(qs))
    /\ logging = FALSE
    /\ caller = NewProc

\* The operating system schedules the main thread and every worker process.
SpecTwoIn ==
    /\ InitTwoIn
    /\ [][Next]_vars
    /\ WF_vars(MainStep)
    /\ \A n \in Range(TwoIn(<<>>).nodes) : \A w \in WorkerIds : WF_vars(Worker(n, w))

\* ------------------------------------------------------------------ claims
\* C1: in a validated pipeline started with run_async(), whose actions exit
\* once their iter_get terminates, pipeline.is_finished() eventually becomes
\* true under fair scheduling.
C1_Termination == <>PipelineIsFinished

\* C2: once run() has returned, the multiset collected at each sink equals
\* the multiset routed to it: no item lost, none duplicated.
Pipeline == CHOOSE t \in Pipelines : t.nodes = nodes

RECURSIVE ItemsInto(_)
\* The items the graph routes into input i over a whole run, as a sequence.
ItemsInto(i) ==
    LET os == SetToSeq(partners[i])
        on(o) == IF kind[node[o]] = "source" THEN Pipeline.pool[node[o]]
                 ELSE SelectSeq(ItemsInto(inputs[node[o]][1]),
                                LAMBDA x : Route(node[o], x) = o)
    IN Flatten([k \in 1..Len(os) |-> on(os[k])])

SameItems(s, t) == \A x \in Range(s) \cup Range(t) : Count(s, x) = Count(t, x)

Sinks == {n \in AllNodes : kind[n] = "sink"}

C2_Conservation ==
    mpc = "returned" =>
        \A k \in Sinks : SameItems(collected[k], ItemsInto(inputs[k][1]))

\* C2 witness: run() has returned on the even/odd pipeline, whose sorter has
\* two workers and whose input is fed by two producers, with both items
\* collected.
C2_Witness ==
    /\ mpc = "returned"
    /\ nodes = EvenOdd.nodes
    /\ collected["KE"] = <<2>>
    /\ collected["KO"] = <<1>>

\* C3: every bounded input holds between 0 and maxsize items; full() holds
\* exactly at size = maxsize and empty() exactly at size = 0.
C3_QueueBound ==
    \A i \in AllInputs :
        maxsize[i] > 0 =>
            /\ 0 <= size(i) /\ size(i) <= maxsize[i]
            /\ full(i) <=> (size(i) = maxsize[i])
            /\ empty(i) <=> (size(i) = 0)

\* C3 witness: a bounded input is full while a producer is inside a put
\* that has this input next.
C3_Witness ==
    \E n \in AllNodes : \E w \in Workers(n) :
        /\ procs[n][w].pc = "put"
        /\ maxsize[Head(procs[n][w].todo)] > 0
        /\ size(Head(procs[n][w].todo)) = maxsize[Head(procs[n][w].todo)]

\* C4: when a put(x) on an output with k >= 1 partners returns, each of the
\* k partner inputs has received exactly one copy of x from that call and
\* no other input has received any.
PutReturns(n, w) == procs[n][w].pc = "put" /\ procs'[n][w].pc # "put"

C4_FanOutConservation ==
    [][\A n \in AllNodes : \A w \in Workers(n) :
         PutReturns(n, w) =>
            \A i \in AllInputs :
                Count(enq'[i], <<procs[n][w].item, procs[n][w].out>>)
                    = IF i \in partners[procs[n][w].out] THEN 1 ELSE 0]_vars

\* C4 witness: a put on the output with two partners has returned, one copy
\* of the item in the history of each partner.
C4_Witness ==
    /\ nodes = FanOut.nodes
    /\ Count(enq["A.input"], <<1, "S.output">>) = 1
    /\ Count(enq["B.input"], <<1, "S.output">>) = 1
    /\ \A w \in Workers("S") : procs["S"][w].item # 1

\* C6: a put whose next partner input is bounded and full does not advance
\* while that input stays full, and it can deliver as soon as the input has
\* room again (a get removed an item).
BlockedOn(n, w) ==
    IF procs[n][w].pc = "put" /\ full(Head(procs[n][w].todo))
    THEN Head(procs[n][w].todo) ELSE None

C6_BackPressure ==
    /\ [][\A n \in AllNodes : \A w \in Workers(n) :
            (BlockedOn(n, w) # None /\ Len(queue'[BlockedOn(n, w)]) >= maxsize[BlockedOn(n, w)])
                => procs'[n][w] = procs[n][w]]_vars
    /\ [][\A n \in AllNodes : \A w \in Workers(n) :
            (BlockedOn(n, w) # None /\ Len(queue'[BlockedOn(n, w)]) < maxsize[BlockedOn(n, w)])
                => (ENABLED PutPartner(n, w))']_vars

\* C6 witness: an input of maxsize 1 holds the first item, no get has been
\* made on it and its consumer has not been started; a second put is inside
\* the call, blocked on that input.
C6_Witness ==
    /\ nodes = FanOut.nodes
    /\ ~locked["A"]
    /\ deq["A.input"] = <<>>
    /\ Len(enq["A.input"]) = 1
    /\ \E w \in Workers("S") : BlockedOn("S", w) = "A.input"

\* C8: a worker driven by iter_get never sees an error come out of the
\* iteration: when the parent stops expecting data and the queue is empty the
\* iteration just ends, also when another worker took the last item.
C8_IterGetClean ==
    \A n \in AllNodes : \A w \in Workers(n) :
        kind[n] # "source" => procs[n][w].exc = ""

\* C9: is_expecting_data() is true exactly when some node owning an output
\* connected to one of the node's inputs is not finished, or some input of
\* the node is non-empty.
C9_IsExpectingData ==
    \A n \in AllNodes :
        IsExpectingData(n) <=>
            \/ \E i \in InputsOf(n) : \E o \in partners[i] :
                    \E w \in DOMAIN states[node[o]] : ~states[node[o]][w]
            \/ \E i \in InputsOf(n) : Len(queue[i]) > 0

\* C9 witness: every upstream node has finished, yet an input still holds an
\* item, so the node is expecting data on the strength of the second
\* disjunct alone.
C9_Witness ==
    \E n \in AllNodes :
        /\ upstream_nodes(n) # <<>>
        /\ \A k \in DOMAIN upstream_nodes(n) : EngineIsFinished(upstream_nodes(n)[k])
        /\ \E i \in InputsOf(n) : Len(queue[i]) > 0
        /\ IsExpectingData(n)

\* C5: the items one producer worker put on output o, connected to input i,
\* come out of i in the order of the put calls, whatever other producers
\* put into i in between.
PutsOf(n, w, o) ==
    LET l == SelectSeq(procs[n][w].log, LAMBDA e : e[2] = o)
    IN [k \in 1..Len(l) |-> l[k][1]]

IsPrefix(s, t) == Len(s) <= Len(t) /\ \A k \in 1..Len(s) : s[k] = t[k]

C5_FifoPerEdge ==
    \A n \in AllNodes : \A w \in Workers(n) : \A o \in OutputsOf(n) :
        \A i \in partners[o] :
            IsPrefix(SelectSeq(deq[i], LAMBDA x : x \in Range(PutsOf(n, w, o))),
                     PutsOf(n, w, o))

\* C5 witness: every item of both producers has come out of the shared
\* input, the two producers' items interleaved.
C5_Witness ==
    /\ nodes = FanIn.nodes
    /\ Len(deq["K.input"]) = 2 * NumItems
    /\ deq["K.input"][1] = 1
    /\ deq["K.input"][2] = NumItems + 1
    /\ deq["K.input"][3] = 2

\* C7: a get with a finite positive timeout on an empty queue leaves its
\* re-check with TimeoutError exactly when the parent node is expecting data
\* and the budget is used up, with Empty exactly when the parent node is no
\* longer expecting data (all upstream nodes finished, all inputs empty), and
\* otherwise waits again.
NotExpecting(n) ==
    /\ \A i \in InputsOf(n) : \A o \in partners[i] :
            \A w \in DOMAIN states[node[o]] : states[node[o]][w]
    /\ \A i \in InputsOf(n) : Len(queue[i]) = 0

C7_TimeoutVsEmpty ==
    [][(caller.pc = "check" /\ caller.timeout < INF /\ caller' # caller) =>
          /\ (caller'.pc = "failed" /\ caller'.exc = "Empty")
                <=> NotExpecting(node[CallerInput])
          /\ (caller'.pc = "failed" /\ caller'.exc = "TimeoutError")
                <=> (~NotExpecting(node[CallerInput]) /\ caller.timeout = 0)
          /\ caller'.pc = "wait"
                <=> (~NotExpecting(node[CallerInput]) /\ caller.timeout > 0)]_vars

\* C7 witness: a get that entered its loop has raised TimeoutError while the
\* upstream worker, started, has not returned and the queue is empty.
C7_Witness ==
    /\ nodes = Dummy.nodes
    /\ caller.pc = "failed"
    /\ caller.exc = "TimeoutError"
    /\ caller.refresh > 0
    /\ locked["U"]
    /\ ~EngineIsFinished("U")
    /\ empty(CallerInput)

\* C10 as stated: while a node's own pool is in its run, is_expecting_data()
\* of the node, once false, is false in the next state, whatever the step.
InRun(n) == locked[n] /\ \E w \in Workers(n) : ~Ended(procs[n][w])

UpstreamReset(n) ==
    \E k \in DOMAIN upstream_nodes(n) :
        locked[upstream_nodes(n)[k]] /\ ~locked'[upstream_nodes(n)[k]]

Reported(n, w) == procs[n][w].pc \in {"exited", "killed"}

C11_IsFinished ==
    \A n \in AllNodes :
        /\ EngineIsFinished(n) <=> \A w \in Workers(n) : Reported(n, w)
        /\ ~locked[n] => ~EngineIsFinished(n)

\* C11 witness: a pool of two workers is finished, one worker having
\* returned and the other having been killed.
C11_Witness ==
    \E n \in AllNodes :
        /\ get_num_processes(n) = 2
        /\ EngineIsFinished(n)
        /\ \E w \in Workers(n) : procs[n][w].pc = "exited"
        /\ \E w \in Workers(n) : procs[n][w].pc = "killed"

\* C12: a worker whose setup, action or teardown failed with an uncaught
\* error has ended with its flag set to finished.
C12_FailureContained ==
    \A n \in AllNodes : \A w \in Workers(n) :
        procs[n][w].pc = "failed" => states[n][w]

\* C13.  set_num_processes(k) fails with RuntimeError exactly when the pool is
\* locked (running or finished), and otherwise with ValueError exactly when
\* k <= 0; a failing call leaves the processes, their flags and so
\* get_num_processes() as they were, and a call that returns leaves
\* get_num_processes() = k and the pool unlocked.
TestCalls(op) == Idle /\ call' # call /\ call'.op = op

C13_SetNumProcesses ==
    [][\A n \in AllNodes :
          TestCalls("set_num_processes") /\ call'.node = n =>
              /\ call'.result = "RuntimeError" <=> locked[n]
              /\ call'.result = "ValueError" <=> ~locked[n] /\ call'.arg <= 0
              /\ call'.result = "ok" <=> ~locked[n] /\ call'.arg > 0
              /\ call'.result # "ok" =>
                     /\ procs'[n] = procs[n]
                     /\ states'[n] = states[n]
                     /\ get_num_processes(n)' = get_num_processes(n)
              /\ call'.result = "ok" =>
                     /\ get_num_processes(n)' = call'.arg
                     /\ ~locked'[n]
              /\ locked' = locked]_vars

\* A finished pool has refused a valid count and kept its two processes.
C13_Witness ==
    /\ call.op = "set_num_processes"
    /\ call.result = "RuntimeError"
    /\ call.arg = 1
    /\ EngineIsFinished(call.node)
    /\ get_num_processes(call.node) = 2

\* A worker of the pool is inside its target.
Running(n) == \E w \in Workers(n) : procs[n][w].pc \in {"setup", "action", "teardown"}

\* C14.  reset() on a pool that was never started, or that has a worker still
\* running, fails with RuntimeError and leaves _locked, the processes (and
\* their count) and the flags of the pool unchanged.
C14_ResetRefused ==
    [][\A n \in AllNodes :
          /\ TestCalls("reset") /\ call'.node = n
          /\ ~locked[n] \/ Running(n)
          => /\ call'.result = "RuntimeError"
             /\ locked'[n] = locked[n]
             /\ get_num_processes(n)' = get_num_processes(n)
             /\ procs'[n] = procs[n]
             /\ states'[n] = states[n]]_vars

\* reset() was refused on a pool of two, one worker still running and the
\* other one done.
C14_Witness ==
    /\ call.op = "reset"
    /\ call.result = "RuntimeError"
    /\ locked[call.node]
    /\ Running(call.node)
    /\ \E w \in Workers(call.node) : states[call.node][w]

\* C15.  reset() on a finished pool returns; afterwards the pool is not
\* finished, has as many processes as before, all of them fresh, is unlocked,
\* and both set_num_processes and run_async return on it.
C15_ResetFinished ==
    [][\A n \in AllNodes :
          TestCalls("reset") /\ call'.node = n /\ EngineIsFinished(n)
          => /\ call'.result = "ok"
             /\ ~EngineIsFinished(n)'
             /\ get_num_processes(n)' = get_num_processes(n)
             /\ procs'[n] = NewProcesses(get_num_processes(n))
             /\ ~locked'[n]
             /\ (ENABLED (SetNumProcesses(n, 1) /\ call'.result = "ok"))'
             /\ (ENABLED (RunAsync(n) /\ call'.result = "ok"))'
             /\ (ENABLED (Run(n) /\ call'.result = "pending"))']_vars

\* A finished pool of two has just been reset: it is unlocked, not finished
\* and its two processes are fresh.
C15_Witness ==
    \E n \in AllNodes :
        /\ call = Called("reset", n, 0, "ok")
        /\ get_num_processes(n) = 2
        /\ ~locked[n]
        /\ ~EngineIsFinished(n)
        /\ procs[n] = NewProcesses(2)

\* C16.  run_async() or run() on a pool that is locked, running or finished,
\* raises RuntimeError; no process is started or changed and no flag moves.
C16_StartTwice ==
    [][\A n \in AllNodes :
          /\ TestCalls("run_async") \/ TestCalls("run")
          /\ call'.node = n /\ locked[n]
          => /\ call'.result = "RuntimeError"
             /\ procs' = procs
             /\ states' = states
             /\ locked' = locked]_vars

\* run() was refused on a pool whose workers are inside their target.
C16_Witness ==
    /\ call.op = "run"
    /\ call.result = "RuntimeError"
    /\ \A w \in Workers(call.node) : procs[call.node][w].pc = "action"
    /\ get_num_processes(call.node) = 2

\* No pool of the pipeline has been started.
NotStarted == \A n \in AllNodes : ~locked[n]

\* Every pool of the pipeline has been started and has finished.
CompletedRun == \A n \in AllNodes : locked[n] /\ EngineIsFinished(n)

\* The test thread's call of a Pipeline method comes to its outcome.
PipelineOutcome(op) ==
    /\ call' # call
    /\ call'.op = op
    /\ call'.result # "pending"

\* join() and kill() of a pool that is not started raise RuntimeError and
\* change nothing; on a pool that has finished, kill() returns and join()
\* is left with nothing to wait for.
PoolJoinKill ==
    \A n \in AllNodes :
        /\ (TestCalls("join") \/ TestCalls("kill")) /\ call'.node = n /\ ~locked[n]
           => /\ call'.result = "RuntimeError"
              /\ <<locked, procs, states>>' = <<locked, procs, states>>
              /\ ~EngineIsFinished(n)'
        /\ TestCalls("kill") /\ call'.node = n /\ locked[n] /\ EngineIsFinished(n)
           => call'.result = "ok"
        /\ TestCalls("join") /\ call'.node = n /\ locked[n] /\ EngineIsFinished(n)
           => call'.result = "pending" /\ (ENABLED JoinReturns)'

\* Pipeline.join() and Pipeline.kill() return after a completed run.
PipelineJoinKillReturn ==
    \A op \in {"pipeline.join", "pipeline.kill"} :
        CompletedRun /\ call' # call /\ call'.op = op
        => /\ call'.result \in {"ok", "pending"}
           /\ call'.result = "pending"
              => (ENABLED (PipelineJoinNode \/ PipelineKillNode))'

\* C17 as stated.  join() and kill() of a pool and of a pipeline raise
\* RuntimeError when the pool or the pipeline has not been started, and leave
\* every pool unlocked and not finished; after a completed run they return.
C17_AsStated ==
    [][/\ PoolJoinKill
       /\ PipelineJoinKillReturn
       /\ \A op \in {"pipeline.join", "pipeline.kill"} :
              NotStarted /\ PipelineOutcome(op)
              => /\ call'.result = "RuntimeError"
                 /\ <<locked, procs, states>>' = <<locked, procs, states>>]_vars

\* C17.  The same, for Pipeline.join() and Pipeline.kill() only on a pipeline
\* that has at least one node: with none, their loops call no pool and the
\* method returns.
C17_JoinKillNotStarted ==
    [][/\ PoolJoinKill
       /\ PipelineJoinKillReturn
       /\ \A op \in {"pipeline.join", "pipeline.kill"} :
              NotStarted /\ PipelineOutcome(op)
              => IF nodes = <<>>
                 THEN call'.result = "ok"
                 ELSE /\ call'.result = "RuntimeError"
                      /\ <<locked, procs, states>>' = <<locked, procs, states>>
                      /\ \A n \in AllNodes : ~locked'[n] /\ ~EngineIsFinished(n)']_vars

\* Pipeline.kill() was refused on the pipeline of two nodes, none started.
C17_Witness ==
    /\ call.op = "pipeline.kill"
    /\ call.result = "RuntimeError"
    /\ nodes # <<>>
    /\ NotStarted
    /\ \A n \in AllNodes : ~EngineIsFinished(n)

\* C18.  kill() on a started pool returns with every worker of the pool
\* ended and flagged, so is_finished() of the node holds in the state kill()
\* returns in; when Pipeline.kill() returns, is_finished() of the pipeline
\* holds; a killed worker takes no further step, teardown included, and
\* stays killed until a reset replaces it.
C18_Kill ==
    /\ [](\A n \in AllNodes : \A w \in Workers(n) :
              procs[n][w].pc = "killed"
              => /\ states[n][w]
                 /\ ~ENABLED (TaskSetup(n, w) \/ TaskAction(n, w) \/ TaskTeardown(n, w)))
    /\ [][/\ \A n \in AllNodes :
                /\ TestCalls("kill") /\ call'.node = n /\ locked[n]
                   => /\ call'.result = "ok"
                      /\ \A w \in Workers(n) : Ended(procs'[n][w]) /\ states'[n][w]
                      /\ EngineIsFinished(n)'
                      /\ NodeIsFinished(n)'
                /\ \A w \in Workers(n) :
                       procs[n][w].pc = "killed" /\ w \in DOMAIN procs'[n]
                       => procs'[n][w] \in {procs[n][w], NewProc}
          /\ PipelineOutcome("pipeline.kill") /\ call'.result = "ok"
             => PipelineIsFinished']_vars

\* Pipeline.kill() has returned on the started pipeline: workers were killed
\* inside setup and action, before teardown, and the pipeline is finished.
C18_Witness ==
    /\ call.op = "pipeline.kill"
    /\ call.result = "ok"
    /\ nodes # <<>>
    /\ PipelineIsFinished
    /\ \A n \in AllNodes : \A w \in Workers(n) : procs[n][w].pc = "killed"

\* The hooks worker w of node n has run, in order.
HooksOf(n, w) ==
    SelectSeq(events, LAMBDA e : e[2] = n /\ e[3] = w /\ e[1] \in {"setup", "action", "teardown"})

Lifecycle(n, w) == <<<<"setup", n, w>>, <<"action", n, w>>, <<"teardown", n, w>>>>

\* C19.  Node.execute(): a call runs class_setup once, before it starts any
\* worker, so every hook of a worker of the node comes after the one
\* class_setup that preceded the start; each worker runs setup, action and
\* teardown in that order (all three when it returns, a prefix when a hook
\* raised); class_teardown runs once, when every worker has ended, and no
\* worker runs a hook after it.
C19_ExecuteOrder ==
    /\ [](\A n \in AllNodes :
            /\ \A w \in Workers(n) :
                   /\ IsPrefix(HooksOf(n, w), Lifecycle(n, w))
                   /\ procs[n][w].pc = "exited" => HooksOf(n, w) = Lifecycle(n, w)
                   /\ procs[n][w].pc = "new" => HooksOf(n, w) = <<>>
            /\ \A k \in DOMAIN events :
                   /\ events[k][2] = n /\ events[k][3] # 0
                      => Count(SubSeq(events, 1, k), <<"class_setup", n, 0>>) = 1
                   /\ events[k] = <<"class_teardown", n, 0>>
                      => /\ \A w \in Workers(n) : Ended(procs[n][w])
                         /\ \A j \in DOMAIN events :
                                j > k /\ events[j][2] = n => events[j][1] = "class_setup"
            /\ Count(events, <<"class_teardown", n, 0>>) <= 1
            /\ call = Called("execute", n, 0, "ok")
               => Count(events, <<"class_teardown", n, 0>>) = 1)
    /\ [][\A n \in AllNodes :
             /\ TestCalls("execute") /\ call'.node = n
                => /\ events' = Append(events, <<"class_setup", n, 0>>)
                   /\ \A w \in Workers(n) : procs[n][w].pc = "new"
                          => procs'[n][w].pc \in {"new", "setup"}
             /\ call' # call /\ call' = Called("execute", n, 0, "ok")
                => events' = Append(events, <<"class_teardown", n, 0>>)]_vars

\* execute() has returned on a node of two workers that ran all their hooks.
C19_Witness ==
    \E n \in AllNodes :
        /\ call = Called("execute", n, 0, "ok")
        /\ get_num_processes(n) = 2
        /\ \A w \in Workers(n) : procs[n][w].pc = "exited" /\ HooksOf(n, w) = Lifecycle(n, w)
        /\ Count(events, <<"class_setup", n, 0>>) = 1

\* The connectors of node n.
ConnectorsOf(n) == InputsOf(n) \cup OutputsOf(n)

\* C20.  Node.validate() returns exactly when the node has a connector and
\* each of its inputs and outputs has a partner; otherwise it raises
\* NodeValidationError, for no connectors, else for an unconnected input,
\* else for an unconnected output; the call changes nothing.
C20_NodeValidate ==
    [][\A n \in AllNodes :
          TestCalls("validate") /\ call'.node = n
          => /\ call'.result = "ok"
                <=> ConnectorsOf(n) # {} /\ \A c \in ConnectorsOf(n) : partners[c] # {}
             /\ call'.result = "NodeValidationError: no connectors"
                <=> ConnectorsOf(n) = {}
             /\ call'.result = "NodeValidationError: unconnected input"
                <=> \E i \in InputsOf(n) : partners[i] = {}
             /\ call'.result = "NodeValidationError: unconnected output"
                <=> /\ \A i \in InputsOf(n) : partners[i] # {}
                    /\ \E o \in OutputsOf(n) : partners[o] = {}
             /\ UNCHANGED <<static, events, caller, queue, locked, states, procs, pool,
                            collected, mpc, mi, enq, deq>>]_vars

\* validate() was refused for the unconnected output of a node whose two
\* inputs are connected.
C20_Witness ==
    /\ call = Called("validate", "n2", 0, "NodeValidationError: unconnected output")
    /\ \A i \in InputsOf("n2") : partners[i] # {}
    /\ partners["n2.out"] = {}

\* Some output of node a is connected to some input of node b.
Feeds(a, b) == \E o \in OutputsOf(a) : \E i \in InputsOf(b) : i \in partners[o]

\* The registered nodes and their connections contain a directed cycle.
HasCycle ==
    \E len \in 1..Len(nodes) : \E p \in [1..len -> AllNodes] :
        \A k \in 1..len : Feeds(p[k], p[(k % len) + 1])

\* Node n is joined to the first registered node by connections taken in
\* either direction.
Reached(n) ==
    \E len \in 1..Len(nodes) : \E p \in [1..len -> AllNodes] :
        /\ p[1] = nodes[1]
        /\ p[len] = n
        /\ \A k \in 1..(len - 1) : Feeds(p[k], p[k + 1]) \/ Feeds(p[k + 1], p[k])

\* C21.  Pipeline.validate() raises the cyclic error exactly when the
\* connections among the registered nodes contain a directed cycle, whatever
\* the order the partner sets are iterated in; when it returns, there is none.
C21_Cyclic ==
    [][TestCalls("pipeline.validate")
       => /\ call'.result = "PipelineValidationError: cyclic" <=> HasCycle
          /\ call'.result = "ok" => ~HasCycle]_vars

\* validate() has raised the cyclic error on a pipeline whose only connection
\* joins the output of a node to the input of the same node.
C21_Witness ==
    /\ call = Called("pipeline.validate", None, 0, "PipelineValidationError: cyclic")
    /\ \E n \in AllNodes :
           /\ Feeds(n, n)
           /\ \A a, b \in AllNodes : Feeds(a, b) => a = n /\ b = n

\* C22.  On an acyclic graph Pipeline.validate() raises the disconnected
\* error exactly when some registered node is not joined to the first
\* registered node by connections taken in either direction.
C22_Disconnected ==
    [][TestCalls("pipeline.validate") /\ ~HasCycle
       => (call'.result = "PipelineValidationError: disconnected"
           <=> \E n \in AllNodes : ~Reached(n))]_vars

\* validate() has raised the disconnected error on the two separate pairs
\* of create_disconnected_pipeline.
C22_Witness ==
    /\ call = Called("pipeline.validate", None, 0, "PipelineValidationError: disconnected")
    /\ Len(nodes) = 4
    /\ Feeds("d1", "d2") /\ Feeds("d3", "d4")

\* C23.  Pipeline.validate() on an acyclic and connected pipeline with a node
\* whose own validate() fails raises the error of such a node.
C23_NodeErrors ==
    [][/\ TestCalls("pipeline.validate")
       /\ ~HasCycle
       /\ \A n \in AllNodes : Reached(n)
       /\ \E n \in AllNodes : NodeValidate(n) # "ok"
       => \E n \in AllNodes : NodeValidate(n) # "ok" /\ call'.result = NodeValidate(n)]_vars

\* C24.  Pipeline.run_async() and Pipeline.run() on a pipeline with a cycle
\* or with a node that is not joined to the first one raise the
\* PipelineValidationError and start nothing: every pool stays unlocked with
\* all of its processes new and no flag set.
C24_ValidatedFirst ==
    [][/\ TestCalls("pipeline.run_async") \/ TestCalls("pipeline.run")
       /\ HasCycle \/ \E n \in AllNodes : ~Reached(n)
       => /\ call'.result = IF HasCycle THEN "PipelineValidationError: cyclic"
                            ELSE "PipelineValidationError: disconnected"
          /\ UNCHANGED <<locked, procs, states>>
          /\ \A n \in AllNodes :
                 /\ ~locked'[n]
                 /\ \A w \in Workers(n) : procs'[n][w] = NewProc /\ ~states'[n][w]]_vars

\* run() was refused on the disconnected pipeline and no pool is started.
C24_Witness ==
    /\ call = Called("pipeline.run", None, 0, "PipelineValidationError: disconnected")
    /\ Len(nodes) = 4
    /\ NotStarted
    /\ \A n \in AllNodes : \A w \in Workers(n) : procs[n][w] = NewProc

\* C25 as stated.  Pipeline.is_finished() holds exactly when the flag of
\* every worker of every registered node is set; it is false while no pool
\* has been started and while a worker of some node is inside its target.
C25_AsStated ==
    /\ PipelineIsFinished <=> \A n \in AllNodes : \A w \in Workers(n) : states[n][w]
    /\ NotStarted => ~PipelineIsFinished
    /\ (\E n \in AllNodes : Running(n)) => ~PipelineIsFinished

\* C25.  The same, where "false while no pool has been started" is said of
\* a pipeline with at least one node; with no node is_finished() is all()
\* of nothing, which is true.
C25_PipelineIsFinished ==
    /\ PipelineIsFinished <=> \A n \in AllNodes : \A w \in Workers(n) : states[n][w]
    /\ NotStarted => (PipelineIsFinished <=> nodes = <<>>)
    /\ (\E n \in AllNodes : Running(n)) => ~PipelineIsFinished

\* One node has finished and a worker of the other is still running: the
\* pipeline is not finished.
C25_Witness ==
    /\ \E n \in AllNodes : EngineIsFinished(n) /\ locked[n]
    /\ \E n \in AllNodes : Running(n)
    /\ ~PipelineIsFinished

\* C26.  When Pipeline.run() returns on a valid pipeline every worker of
\* every node has ended, and is_finished() of the pipeline is true.
C26_RunReturns ==
    mpc = "returned"
    => /\ \A n \in AllNodes : \A w \in Workers(n) : Ended(procs[n][w])
       /\ PipelineIsFinished

\* C27: partner symmetry.  Whatever connect and disconnect calls succeeded or
\* failed so far, a connector is in the partner set of another exactly when
\* the other is in its own; and right after a successful o.connect(i) each
\* of the two is a partner of the other and both report is_connected().
C27_Symmetry ==
    /\ \A a \in DOMAIN partners : \A b \in DOMAIN partners :
          b \in partners[a] <=> a \in partners[b]
    /\ (call.op = "connect" /\ call.result = "ok")
       => /\ call.conn[2] \in partners[call.conn[1]]
          /\ call.conn[1] \in partners[call.conn[2]]
          /\ is_connected(call.conn[1])
          /\ is_connected(call.conn[2])

\* A connect that succeeded on an input which then has two partners, one of
\* them an output that itself feeds both inputs.
C27_Witness ==
    /\ call.op = "connect"
    /\ call.result = "ok"
    /\ call.conn = <<"n1.out1", "n2.in1">>
    /\ partners["n2.in1"] = {"n1.out1", "n2.out"}
    /\ partners["n1.out1"] = {"n2.in1", "n2.in2"}

\* C28: connect is idempotent.  o.connect(i) on a pair that is connected
\* already leaves every partner set as it was, o still iterates over each of
\* its partners exactly once, and so whenever a put(x) on o returns, each
\* partner of o holds exactly one copy of x.
C28_Idempotent ==
    [][/\ \A o \in AllOutputs : \A i \in partners[o] :
            (TestCalls("connect") /\ call'.conn = <<o, i>>)
            => /\ call'.result = "ok"
               /\ partners' = partners
               /\ Len(porder'[o]) = Cardinality(partners[o])
               /\ \A c \in partners[o] : Count(porder'[o], c) = 1
       /\ (caller.pc = "put" /\ caller'.pc = "new")
          => \A i \in partners[caller.out] :
               /\ Count(queue'[i], caller.item) = 1
               /\ Count(enq'[i], <<caller.item, caller.out>>) = 1]_vars

\* n1.out1.connect(n2.in1) succeeded on a pair that was connected already,
\* n1.out1 having two partners before and after the call.
C28_Witness ==
    /\ call.op = "connect"
    /\ call.result = "ok"
    /\ call.conn = <<"n1.out1", "n2.in1">>
    /\ call.arg = 2
    /\ partners["n1.out1"] = {"n2.in1", "n2.in2"}
    /\ partners["n2.in1"] = {"n1.out1"}
    /\ Len(porder["n1.out1"]) = 2

\* C29: disconnect is symmetric and touches one link only.  After
\* o.disconnect(i) on a connected pair, i is no partner of o and o no partner
\* of i, and every other link of o, of i and of any other connector is as it
\* was before the call.
C29_Disconnect ==
    [][\A o \in AllOutputs : \A i \in partners[o] :
         (TestCalls("disconnect") /\ call'.conn = <<o, i>>)
         => /\ call'.result = "ok"
            /\ i \notin partners'[o]
            /\ o \notin partners'[i]
            /\ \A a \in DOMAIN partners : \A b \in DOMAIN partners :
                 {a, b} # {o, i} => (b \in partners'[a] <=> b \in partners[a])]_vars

\* n1.out1.disconnect(n2.in1) succeeded while n1.out1 also feeds n2.in2 and
\* n2.in1 is also fed by n2.out: both other links are still there.
C29_Witness ==
    /\ call.op = "disconnect"
    /\ call.result = "ok"
    /\ call.conn = <<"n1.out1", "n2.in1">>
    /\ partners["n1.out1"] = {"n2.in2"}
    /\ partners["n2.in1"] = {"n2.out"}
    /\ partners["n2.in2"] = {"n1.out1"}
    /\ partners["n2.out"] = {"n2.in1"}

\* C30: each of the three calls that find a connection missing raises
\* MissingConnectionError and changes nothing: put on an output with no
\* partner enqueues nothing anywhere, disconnect of a connector that is no
\* partner leaves every partner set as it was, and iter_get on an input of
\* no node takes nothing from the queue.
C30_MissingConnection ==
    [][/\ \A o \in AllOutputs :
            (TestCalls("put") /\ call'.conn[1] = o /\ partners[o] = {})
            => /\ call'.result = "MissingConnectionError"
               /\ caller'.pc = "failed"
               /\ caller'.exc = "MissingConnectionError"
               /\ UNCHANGED <<queue, enq, deq, partners, porder>>
       /\ \A o \in AllOutputs : \A c \in DOMAIN partners \ partners[o] :
            (TestCalls("disconnect") /\ call'.conn = <<o, c>>)
            => /\ call'.result = "MissingConnectionError"
               /\ UNCHANGED <<queue, enq, deq, partners, porder>>
       /\ \A i \in DOMAIN queue :
            (TestCalls("iter_get") /\ call'.conn[1] = i /\ node[i] = None)
            => /\ call'.result = "MissingConnectionError"
               /\ caller'.pc = "failed"
               /\ caller'.exc = "MissingConnectionError"
               /\ UNCHANGED <<queue, enq, deq, partners, porder>>]_vars

\* iter_get raised on the input of no node while an item put on n1.out2 was
\* waiting in its queue, and the item is still there.
C30_Witness ==
    /\ call.op = "iter_get"
    /\ call.conn[1] = "inp"
    /\ call.result = "MissingConnectionError"
    /\ caller.pc = "failed"
    /\ node["inp"] = None
    /\ queue["inp"] = <<1>>
    /\ deq["inp"] = <<>>

\* C31: o.connect(c) with c an output like o raises ValueError (the type
\* mismatch) and leaves every partner set as it was; and in every reachable
\* state each partner of an output is an input and each partner of an input
\* is an output.
C31_SameKind ==
    /\ [](/\ \A o \in AllOutputs : partners[o] \subseteq DOMAIN queue
          /\ \A i \in DOMAIN queue : partners[i] \subseteq AllOutputs)
    /\ [][\A o \in AllOutputs : \A c \in AllOutputs :
            (TestCalls("connect") /\ call'.conn = <<o, c>>)
            => /\ call'.result = "ValueError"
               /\ UNCHANGED <<partners, porder>>]_vars

\* n2.out.connect(n2.out) was refused while n2.out feeds n2.in1 and n1.out1
\* feeds n2.in2: n2.out has the one partner it had before the call.
C31_Witness ==
    /\ call.op = "connect"
    /\ call.result = "ValueError"
    /\ call.conn = <<"n2.out", "n2.out">>
    /\ call.arg = 1
    /\ partners["n2.out"] = {"n2.in1"}
    /\ partners["n1.out1"] = {"n2.in2"}
    /\ partners["n1.out2"] = {}

\* C32: get with a negative timeout raises ValueError, not TimeoutError or
\* Empty, and takes no item from the queue; so does iter_get when it is
\* given the negative timeout.
C32_NegativeTimeout ==
    [][((TestCalls("get") \/ TestCalls("iter_get")) /\ call'.arg < 0)
       => /\ call'.result = "ValueError"
          /\ caller'.pc = "failed"
          /\ caller'.exc = "ValueError"
          /\ UNCHANGED <<queue, deq>>]_vars

\* C34: get(timeout=0), with any valid refresh interval, raises TimeoutError
\* without waiting on the queue, also when the queue holds items, and the
\* queue holds the same items after the call as before.
C34_ZeroTimeout ==
    [][(TestCalls("get") /\ call'.arg = 0 /\ call'.i > 0)
       => /\ call'.result = "TimeoutError"
          /\ caller'.pc = "failed"
          /\ caller'.exc = "TimeoutError"
          /\ queue' = queue
          /\ size(CallerInput)' = size(CallerInput)
          /\ deq' = deq]_vars

\* get(timeout=0) raised TimeoutError on a queue that holds an item.
C34_Witness ==
    /\ call.op = "get"
    /\ call.arg = 0
    /\ call.i = DefaultRefresh
    /\ call.result = "TimeoutError"
    /\ caller.pc = "failed"
    /\ caller.exc = "TimeoutError"
    /\ queue[CallerInput] = <<1>>
    /\ deq[CallerInput] = <<>>

\* The test's get on the input of no node, its queue empty.
LoneGet == TestCalls("get") /\ node[CallerInput] = None /\ empty(CallerInput)

\* C35 as stated: get on an input of no node whose queue is empty goes to
\* its first wait and raises Empty when that wait expires, whatever the
\* timeout (zero, positive or None).
C35_AsStated ==
    [][/\ (LoneGet /\ call'.i > 0 /\ call'.arg >= 0) => caller'.pc = "wait"
       /\ (caller.pc = "check" /\ node[CallerInput] = None /\ caller' # caller)
            => (caller'.pc = "failed" /\ caller'.exc = "Empty")]_vars

\* C35: get with a positive timeout or None on an input of no node whose
\* queue is empty waits once and raises Empty when that wait expires; it
\* neither waits again nor raises TimeoutError, and the queue stays empty.
C35_EmptyAfterFirstWait ==
    [][/\ (LoneGet /\ call'.i > 0 /\ call'.arg > 0) => caller'.pc = "wait"
       /\ (caller.pc = "wait" /\ node[CallerInput] = None /\ empty(CallerInput)
            /\ caller' # caller)
            => (caller'.pc = "check" /\ queue' = queue)
       /\ (caller.pc = "check" /\ node[CallerInput] = None /\ caller' # caller)
            => (caller'.pc = "failed" /\ caller'.exc = "Empty" /\ queue' = queue)]_vars

\* InputConnector().get() with no timeout has raised Empty on the empty
\* queue of the input of no node.
C35_Witness ==
    /\ node[CallerInput] = None
    /\ call.op = "get"
    /\ call.arg = INF
    /\ call.result = "wait"
    /\ caller.pc = "failed"
    /\ caller.exc = "Empty"
    /\ caller.timeout = INF
    /\ empty(CallerInput)
    /\ enq[CallerInput] = <<>>

\* C33: a node started by Pipeline.run() or Pipeline.run_async() follows the
\* node lifecycle: when a worker of the node runs a hook, the node's
\* class_setup has run exactly once before, and once run() has returned
\* with every worker ended, the node's class_teardown has run exactly once.
C33_PipelineLifecycle ==
    \A n \in AllNodes :
        /\ \A k \in DOMAIN events :
               (events[k][2] = n /\ events[k][3] # 0)
               => Count(SubSeq(events, 1, k), <<"class_setup", n, 0>>) = 1
        /\ (call = Called("pipeline.run", None, 0, "ok")
            /\ \A w \in Workers(n) : Ended(procs[n][w]))
           => Count(events, <<"class_teardown", n, 0>>) = 1

\* C37: finished implies started.  Whatever calls of set_num_processes,
\* run_async, run, join, kill and reset were made on the pools, failing ones
\* included, a pool whose is_finished() is true is locked; so a pool that
\* was never started and a pool that was just reset are not finished.
C37_FinishedImpliesStarted ==
    \A n \in AllNodes :
        /\ EngineIsFinished(n) => locked[n]
        /\ (call.op = "reset" /\ call.node = n /\ call.result = "ok")
           => (~locked[n] /\ ~EngineIsFinished(n))

\* A pool of two whose workers have both returned is finished and locked,
\* and set_num_processes has just been refused on it.
C37_Witness ==
    \E n \in AllNodes :
        /\ call.op = "set_num_processes"
        /\ call.node = n
        /\ call.result = "RuntimeError"
        /\ get_num_processes(n) = 2
        /\ \A w \in Workers(n) : procs[n][w].pc = "exited"
        /\ EngineIsFinished(n)
        /\ locked[n]

RECURSIVE UpstreamWithin(_, _)
\* The nodes a walk of at most k connections leads from, into the set S.
UpstreamWithin(S, k) ==
    IF k = 0 THEN S
    ELSE UpstreamWithin(S \cup {a \in AllNodes : \E b \in S : Feeds(a, b)}, k - 1)

\* The transitive upstream nodes of node n.
Ancestors(n) == UpstreamWithin({a \in AllNodes : Feeds(a, n)}, Len(nodes))

\* C40: finish order follows the graph.  In a validated pipeline that runs
\* without kill or reset, whose consumers only loop over an untimed
\* iter_get, a node that is finished has every ancestor finished and every
\* one of its input queues empty.
C40_FinishOrder ==
    \A n \in AllNodes :
        NodeIsFinished(n)
        => /\ \A a \in Ancestors(n) : NodeIsFinished(a)
           /\ \A i \in InputsOf(n) : empty(i)

\* The load node of the ETL pipeline is finished while run() has not yet
\* returned: its two ancestors, extract and transform, are finished, its
\* queue is empty and every item was collected.
C40_Witness ==
    /\ nodes = Etl.nodes
    /\ NodeIsFinished("L")
    /\ Ancestors("L") = {"E", "T"}
    /\ NodeIsFinished("E")
    /\ NodeIsFinished("T")
    /\ Len(collected["L"]) = NumItems
    /\ mpc # "returned"

\* Worker w of node n is inside put(x) on output o.
InPut(n, w, x, o) ==
    procs[n][w].pc = "put" /\ procs[n][w].item = x /\ procs[n][w].out = o

\* C38 as stated: fan-out is all-or-nothing.  In every state, also inside a
\* put(x) that is blocked on a full partner, either every partner of the
\* output has received x from that call or none has.
C38_AsStated ==
    \A n \in AllNodes : \A w \in Workers(n) :
        procs[n][w].pc = "put"
        => LET e == <<procs[n][w].item, procs[n][w].out>>
               got == {i \in partners[e[2]] : Count(enq[i], e) > 0}
           IN got = {} \/ got = partners[e[2]]

\* C38: fan-out goes partner by partner.  Inside a put(x) the partners the
\* loop has passed have received x once and the partners still to come have
\* not, whether or not the call is blocked on a full partner; and an item
\* that some input has received from a put that is no longer in progress
\* has been received once by every partner of that output.
C38_PartnerByPartner ==
    /\ \A n \in AllNodes : \A w \in Workers(n) :
          procs[n][w].pc = "put"
          => \A i \in partners[procs[n][w].out] :
                Count(enq[i], <<procs[n][w].item, procs[n][w].out>>)
                    = IF i \in Range(procs[n][w].todo) THEN 0 ELSE 1
    /\ \A i \in AllInputs : \A k \in DOMAIN enq[i] :
          (\A n \in AllNodes : \A w \in Workers(n) : ~InPut(n, w, enq[i][k][1], enq[i][k][2]))
          => \A j \in partners[enq[i][k][2]] : Count(enq[j], enq[i][k]) = 1

\* A put on the output with two partners is blocked on the full bounded
\* input A.input after it delivered the item to B.input, where the consumer
\* has already taken it.
C38_Witness ==
    /\ nodes = FanOut.nodes
    /\ \E w \in Workers("S") :
          /\ BlockedOn("S", w) = "A.input"
          /\ Count(enq["B.input"], <<procs["S"][w].item, "S.output">>) = 1
          /\ Count(enq["A.input"], <<procs["S"][w].item, "S.output">>) = 0
          /\ procs["S"][w].item \in Range(collected["B"])

\* C36: a put blocked on a full partner input eventually gets on when a get
\* has made room in that partner, and also when the node that consumes from
\* the partner has been killed: after the shutdown of its consumer the put
\* does not stay blocked forever.
PutAt(n, w) ==
    IF n \in AllNodes /\ w \in Workers(n) /\ procs[n][w].pc = "put"
    THEN Head(procs[n][w].todo) ELSE None

ConsumerKilled(i) ==
    /\ locked[node[i]]
    /\ \A v \in Workers(node[i]) : procs[node[i]][v].pc = "killed"

C36_BlockedPutReturns ==
    \A n \in Range(FanOut.nodes) : \A w \in WorkerIds : \A i \in Range(FanOut.inputs["A"]) :
        /\ (PutAt(n, w) = i /\ ~full(i)) ~> (PutAt(n, w) # i)
        /\ (PutAt(n, w) = i /\ full(i) /\ ConsumerKilled(i)) ~> (PutAt(n, w) # i)

\* C39, as stated: once every upstream node of a node has finished and its
\* input A is empty, a worker inside iter_get (or get without timeout) on A
\* eventually leaves it, also while another input B of the node holds items.
InGet(n, w) ==
    n \in AllNodes /\ w \in Workers(n) /\ procs[n][w].pc \in {"wait", "check"}

Drained(n) ==
    /\ n \in AllNodes
    /\ inputs[n] # <<>>
    /\ ~UpstreamRunning(n)
    /\ empty(inputs[n][1])

====
